---- MODULE Spec2Model ----
(***************************************************************************)
(* A model of the RAG chatbot over student CVs: the rule-based decision    *)
(* engine (decision_engine.py), the vector store's metadata filters        *)
(* (vector_store.py), the configuration check (config.py) and the          *)
(* orchestration of one query (rag_agent.py, app.py).                      *)
(*                                                                         *)
(* Python strings are TLA+ strings; Python dicts are functions whose       *)
(* domain is the set of keys present; Python's None is the value None.     *)
(***************************************************************************)
EXTENDS Integers, Sequences, FiniteSets, TLC

(***************************************************************************)
(* Strings: str.lower(), str.strip(), the `in` operator, and the character *)
(* classes \s and \w of Python's re module.                                *)
(***************************************************************************)

\* Python's None. Every other dict value of the model is a string that a
\* capture group (\w+), a CV or the environment can produce.
None == "<None>"

UpperChars == "ABCDEFGHIJKLMNOPQRSTUVWXYZÁÉÍÓÚÑ"
LowerChars == "abcdefghijklmnopqrstuvwxyzáéíóúñ"
DigitChars == "0123456789_"
SpaceChars == " \t\n\r"

CharAt(s, i) == SubSeq(s, i, i)

CharsOf(s) == { CharAt(s, i) : i \in 1..Len(s) }

UpperSet == CharsOf(UpperChars)

SpaceSet == CharsOf(SpaceChars)

WordSet == CharsOf(UpperChars) \cup CharsOf(LowerChars) \cup CharsOf(DigitChars)

LowerOf == [ c \in UpperSet |->
               CharAt(LowerChars, CHOOSE i \in 1..Len(UpperChars) : CharAt(UpperChars, i) = c) ]

LowerChar(c) == IF c \in UpperSet THEN LowerOf[c] ELSE c

RECURSIVE LowerFrom(_, _)
LowerFrom(s, i) ==
    IF i > Len(s) THEN "" ELSE LowerChar(CharAt(s, i)) \o LowerFrom(s, i + 1)

\* str.lower()
Lower(s) == LowerFrom(s, 1)

RECURSIVE FirstNonSpace(_, _)
FirstNonSpace(s, i) ==
    IF i > Len(s) \/ CharAt(s, i) \notin SpaceSet THEN i ELSE FirstNonSpace(s, i + 1)

RECURSIVE LastNonSpace(_, _)
LastNonSpace(s, j) ==
    IF j < 1 \/ CharAt(s, j) \notin SpaceSet THEN j ELSE LastNonSpace(s, j - 1)

\* str.strip()
Strip(s) == SubSeq(s, FirstNonSpace(s, 1), LastNonSpace(s, Len(s)))

\* sub in s
Contains(s, sub) ==
    \E i \in 1..(Len(s) - Len(sub) + 1) : SubSeq(s, i, i + Len(sub) - 1) = sub

(***************************************************************************)
(* Regular expressions.  A pattern is a tree; Run(re, s, i, ic) is the     *)
(* sequence of the ways re matches s from position i, in the order in      *)
(* which Python's backtracking matcher tries them (greedy first), each     *)
(* with the position after the match and the text of group 1.  re.search   *)
(* takes the leftmost start that has a match, and its first way.           *)
(***************************************************************************)

L(s) == [t |-> "lit", s |-> s]

Cls(s) == [t |-> "cls", s |-> s]

O(r) == [t |-> "opt", r |-> r]

Alt(rs) == [t |-> "alt", rs |-> rs]

Cat(rs) == [t |-> "cat", rs |-> rs]

Bol == [t |-> "bol"]

\* \s+
Sp == [t |-> "plus", set |-> SpaceSet]

\* \s*
Sp0 == O(Sp)

\* (\w+)
CapW == [t |-> "cap", r |-> [t |-> "plus", set |-> WordSet]]

NoGroup == None

Way(e, g) == [e |-> e, g |-> g]

\* the least member of a non-empty set of positions
Least(S) == CHOOSE j \in S : \A k \in S : j <= k

\* how many characters of `set` follow from position i
RunLen(set, s, i) ==
    Least({ j \in i..(Len(s) + 1) : j = Len(s) + 1 \/ CharAt(s, j) \notin set }) - i

\* how many characters outside `set` follow from position i
RunLenNot(set, s, i) ==
    Least({ j \in i..(Len(s) + 1) : j = Len(s) + 1 \/ CharAt(s, j) \in set }) - i

RECURSIVE Greedy(_, _, _)
\* the ends of a greedy x+ over n available characters: longest first
Greedy(i, n, g) ==
    IF n < 1 THEN << >> ELSE << Way(i + n, g) >> \o Greedy(i, n - 1, g)

\* two texts of the same length are equal, under re.IGNORECASE when ic
SameText(a, b, ic) ==
    IF ic THEN \A k \in 1..Len(a) : LowerChar(CharAt(a, k)) = LowerChar(CharAt(b, k))
    ELSE a = b

RECURSIVE Run(_, _, _, _)
RECURSIVE RunAlt(_, _, _, _)
RECURSIVE RunCat(_, _, _, _, _)
RECURSIVE RunRest(_, _, _, _, _)

Run(re, s, i, ic) ==
    CASE re.t = "lit" ->
            IF /\ i + Len(re.s) - 1 <= Len(s)
               /\ SameText(SubSeq(s, i, i + Len(re.s) - 1), re.s, ic)
            THEN << Way(i + Len(re.s), NoGroup) >> ELSE << >>
      [] re.t = "cls" ->
            IF /\ i <= Len(s)
               /\ \E c \in CharsOf(re.s) : SameText(CharAt(s, i), c, ic)
            THEN << Way(i + 1, NoGroup) >> ELSE << >>
      [] re.t = "bol" -> IF i = 1 THEN << Way(i, NoGroup) >> ELSE << >>
      [] re.t = "plus" -> Greedy(i, RunLen(re.set, s, i), NoGroup)
      [] re.t = "plusnot" -> Greedy(i, RunLenNot(re.set, s, i), NoGroup)
      [] re.t = "opt" -> Run(re.r, s, i, ic) \o << Way(i, NoGroup) >>
      [] re.t = "alt" -> RunAlt(re.rs, s, i, ic)
      [] re.t = "cat" -> RunCat(re.rs, s, i, ic, NoGroup)
      [] re.t = "cap" ->
            LET ws == Run(re.r, s, i, ic)
            IN  [ k \in 1..Len(ws) |-> Way(ws[k].e, SubSeq(s, i, ws[k].e - 1)) ]

RunAlt(rs, s, i, ic) ==
    IF rs = << >> THEN << >>
    ELSE Run(Head(rs), s, i, ic) \o RunAlt(Tail(rs), s, i, ic)

\* rs from position i, g the group captured so far
RunCat(rs, s, i, ic, g) ==
    IF rs = << >> THEN << Way(i, g) >>
    ELSE RunRest(Run(Head(rs), s, i, ic), Tail(rs), s, ic, g)

\* for each way of the head, in order, the ways of the rest
RunRest(ws, rs, s, ic, g) ==
    IF ws = << >> THEN << >>
    ELSE RunCat(rs, s, Head(ws).e, ic, IF Head(ws).g = NoGroup THEN g ELSE Head(ws).g)
         \o RunRest(Tail(ws), rs, s, ic, g)

\* the leftmost position from i on where re matches, 0 when there is none
FirstStart(re, s, i, ic) ==
    LET hits == { j \in i..(Len(s) + 1) : Run(re, s, j, ic) # << >> }
    IN  IF hits = {} THEN 0 ELSE Least(hits)

RECURSIVE FindAllFrom(_, _, _, _)
\* re.findall(pattern, s) of a pattern with one group: the groups of the
\* successive non-overlapping matches (the patterns here match no empty text)
FindAllFrom(re, s, i, ic) ==
    LET j == FirstStart(re, s, i, ic)
        m == Head(Run(re, s, j, ic))
    IN  IF j = 0 THEN << >> ELSE << m.g >> \o FindAllFrom(re, s, m.e, ic)

re_findall(re, s, ic) == FindAllFrom(re, s, 1, ic)

\* re.search found nothing (a match ends at 1 or later)
NoMatch == Way(0, NoGroup)

Matched(m) == m.e # 0

\* re.search(pattern, s, flags): the first way of the leftmost match
re_search(re, s, ic) ==
    LET j == FirstStart(re, s, 1, ic)
    IN  IF j = 0 THEN NoMatch ELSE Head(Run(re, s, j, ic))

(***************************************************************************)
(* decision_engine.py: QueryType, DecisionEngine.                          *)
(***************************************************************************)

STUDENT_SEARCH == "student_search"
SKILL_QUERY == "skill_query"
EXPERIENCE_QUERY == "experience_query"
EDUCATION_QUERY == "education_query"
CONTACT_QUERY == "contact_query"
GENERAL_INFO == "general_info"
GREETING == "greeting"
UNKNOWN == "unknown"

QueryType == { STUDENT_SEARCH, SKILL_QUERY, EXPERIENCE_QUERY, EDUCATION_QUERY,
               CONTACT_QUERY, GENERAL_INFO, GREETING, UNKNOWN }

\* x? after a literal, as in habilidades?
Q(lit, last) == Cat(<< L(lit), O(L(last)) >>)

StudentPatterns ==
    << Cat(<< L("busca"), O(L("r")), Sp, L("estudiante"), O(L("s")), Sp,
              Alt(<< Q("llamado", "s"), L("de nombre"),
                     Cat(<< L("que se llam"), Cls("ae") >>) >>),
              Sp, CapW >>),
       Cat(<< L("estudiante"), O(L("s")), Sp,
              Alt(<< L("con nombre"), Q("llamado", "s") >>), Sp, CapW >>),
       Cat(<< L("quien es"), Sp, CapW >>),
       Cat(<< L("información de"), Sp, CapW >>),
       Cat(<< L("datos de"), O(L("l")), Sp, L("estudiante"), Sp, CapW >>) >>

SkillPatterns ==
    << Alt(<< Q("habilidade", "s"), Q("skill", "s"), Q("competencia", "s"),
              Q("conocimiento", "s") >>),
       Cat(<< Alt(<< L("sabe"), L("conoce"), L("domina") >>), Sp,
              O(Cat(<< L("de"), Sp >>)), CapW >>),
       Cat(<< L("experiencia en"), Sp, CapW >>),
       Cat(<< L("tecnolog"), Cls("íi"), L("a"), O(L("s")), Sp,
              O(Cat(<< L("que"), Sp >>)),
              Alt(<< L("maneja"), L("conoce"), L("domina") >>) >>) >>

ExperiencePatterns ==
    << Cat(<< L("experiencia"), Sp, L("laboral") >>),
       Cat(<< Alt(<< Q("trabajo", "s"), Q("empleo", "s") >>), Sp,
              Alt(<< Q("anteriore", "s"), Q("previo", "s") >>) >>),
       Cat(<< Alt(<< L("dónde"), L("donde") >>), Sp, O(Cat(<< L("ha"), Sp >>)),
              L("trabajado") >>),
       Cat(<< L("empresa"), O(L("s")), Sp,
              Alt(<< Cat(<< L("donde"), Sp, L("ha"), Sp, L("trabajado") >>),
                     Cat(<< L("en"), Sp, L("las"), Sp, L("que"), Sp, L("trabajó") >>) >>) >>) >>

EducationPatterns ==
    << Cat(<< Alt(<< L("educación"), Q("estudio", "s"), L("formación") >>), Sp,
              O(Q("académic", "a")) >>),
       Alt(<< L("universidad"), L("carrera"), L("titulo"), L("grado") >>),
       Cat(<< Alt(<< L("dónde"), L("donde") >>), Sp,
              Alt(<< L("estudió"), L("estudia") >>) >>),
       Cat(<< Alt(<< L("qué"), L("que") >>), Sp,
              Alt(<< L("estudió"), L("estudia"), L("carrera") >>) >>) >>

ContactPatterns ==
    << Alt(<< L("contacto"), L("teléfono"), L("email"), L("correo"), L("dirección") >>),
       Cat(<< Alt(<< L("cómo"), L("como") >>), Sp,
              Alt(<< L("contactar"), L("comunicarse") >>) >>),
       Cat(<< L("datos"), Sp, L("de"), Sp, L("contacto") >>) >>

GreetingPatterns ==
    << Cat(<< Bol, Alt(<< L("hola"),
                          Cat(<< L("bueno"), O(L("s")), Sp, L("día"), O(L("s")) >>),
                          Cat(<< L("buena"), O(L("s")), Sp, L("tarde"), O(L("s")) >>),
                          Cat(<< L("buena"), O(L("s")), Sp, L("noche"), O(L("s")) >>) >>) >>),
       Cat(<< Bol, Alt(<< Q("saludo", "s"), L("hi"), L("hello") >>) >>),
       Cat(<< Bol, Alt(<< Cat(<< L("qué"), Sp, L("tal") >>),
                          Cat(<< L("como"), Sp, Q("esta", "s") >>),
                          Cat(<< L("como"), Sp, L("está") >>) >>) >>) >>

\* patterns whose greeting rule makes its keyword optional: ^(?:hola)?
PatternsOptionalKeyword ==
    [ qt \in { STUDENT_SEARCH, SKILL_QUERY, EXPERIENCE_QUERY, EDUCATION_QUERY,
               CONTACT_QUERY, GREETING } |->
        CASE qt = STUDENT_SEARCH -> StudentPatterns
          [] qt = SKILL_QUERY -> SkillPatterns
          [] qt = EXPERIENCE_QUERY -> ExperiencePatterns
          [] qt = EDUCATION_QUERY -> EducationPatterns
          [] qt = CONTACT_QUERY -> ContactPatterns
          [] qt = GREETING -> << Cat(<< Bol, O(L("hola")) >>) >> ]

\* DecisionEngine.__init__: self.patterns (UNKNOWN and GENERAL_INFO have no entry)
Patterns ==
    [ qt \in { STUDENT_SEARCH, SKILL_QUERY, EXPERIENCE_QUERY, EDUCATION_QUERY,
               CONTACT_QUERY, GREETING } |->
        CASE qt = STUDENT_SEARCH -> StudentPatterns
          [] qt = SKILL_QUERY -> SkillPatterns
          [] qt = EXPERIENCE_QUERY -> ExperiencePatterns
          [] qt = EDUCATION_QUERY -> EducationPatterns
          [] qt = CONTACT_QUERY -> ContactPatterns
          [] qt = GREETING -> GreetingPatterns ]

\* the state of a DecisionEngine object
NewDecisionEngine == [patterns |-> Patterns]

\* _extract_skill's local skill_patterns
SkillExtractPatterns ==
    << Cat(<< Alt(<< L("sabe"), L("conoce"), L("domina") >>), Sp,
              O(Cat(<< L("de"), Sp >>)), CapW >>),
       Cat(<< L("experiencia en"), Sp, CapW >>),
       Cat(<< Q("conocimiento", "s"), Sp, Alt(<< L("de"), L("en") >>), Sp, CapW >>) >>

RECURSIVE AnyMatch(_, _)
AnyMatch(patterns, query) ==
    IF patterns = << >> THEN FALSE
    ELSE IF Matched(re_search(Head(patterns), query, TRUE)) THEN TRUE
    ELSE AnyMatch(Tail(patterns), query)

\* patterns.get(query_type, []) and the loop over it
match_patterns(self, query, query_type) ==
    AnyMatch(IF query_type \in DOMAIN self.patterns THEN self.patterns[query_type] ELSE << >>,
             query)

RECURSIVE FirstGroup(_, _)
\* the loop of _extract_student_name and _extract_skill: group(1).strip() of the
\* first pattern that matches, else None
FirstGroup(patterns, query) ==
    IF patterns = << >> THEN None
    ELSE LET m == re_search(Head(patterns), query, TRUE)
         IN  IF Matched(m) THEN Strip(m.g) ELSE FirstGroup(Tail(patterns), query)

extract_student_name(self, query) == FirstGroup(self.patterns[STUDENT_SEARCH], query)

extract_skill(query) == FirstGroup(SkillExtractPatterns, query)

\* Python truthiness of an Optional[str]
Truthy(v) == v # None /\ v # ""

\* the empty dict
EmptyDict == [k \in {} |-> None]

\* a dict with one key
Dict1(k, v) == [x \in {k} |-> v]

\* dict.get(key) (default None)
Get(d, k) == IF k \in DOMAIN d THEN d[k] ELSE None

\* analyze_query's return value (query_type, extracted_info)
Analysis(qt, info) == [query_type |-> qt, extracted_info |-> info]

\* analyze_query with the skill rules tried before the greeting and student rules
analyze_query_skill_first(self, query) ==
    LET query_lower == Strip(Lower(query))
        student_match == extract_student_name(self, query_lower)
        skill_match == extract_skill(query_lower)
    IN  IF match_patterns(self, query_lower, SKILL_QUERY)
          THEN Analysis(SKILL_QUERY,
                        IF Truthy(skill_match) THEN Dict1("skill", skill_match) ELSE EmptyDict)
        ELSE IF match_patterns(self, query_lower, GREETING)
          THEN Analysis(GREETING, EmptyDict)
        ELSE IF Truthy(student_match)
          THEN Analysis(STUDENT_SEARCH, Dict1("student_name", student_match))
        ELSE IF match_patterns(self, query_lower, EXPERIENCE_QUERY)
          THEN Analysis(EXPERIENCE_QUERY, EmptyDict)
        ELSE IF match_patterns(self, query_lower, EDUCATION_QUERY)
          THEN Analysis(EDUCATION_QUERY, EmptyDict)
        ELSE IF match_patterns(self, query_lower, CONTACT_QUERY)
          THEN Analysis(CONTACT_QUERY, EmptyDict)
        ELSE Analysis(GENERAL_INFO, EmptyDict)

\* an analyze_query that stores the skill it extracted whether or not it is None
analyze_query_skill_key(self, query) ==
    LET query_lower == Strip(Lower(query))
        student_match == extract_student_name(self, query_lower)
        skill_match == extract_skill(query_lower)
    IN  IF match_patterns(self, query_lower, GREETING)
          THEN Analysis(GREETING, EmptyDict)
        ELSE IF Truthy(student_match)
          THEN Analysis(STUDENT_SEARCH, Dict1("student_name", student_match))
        ELSE IF match_patterns(self, query_lower, SKILL_QUERY)
          THEN Analysis(SKILL_QUERY, Dict1("skill", skill_match))
        ELSE IF match_patterns(self, query_lower, EXPERIENCE_QUERY)
          THEN Analysis(EXPERIENCE_QUERY, EmptyDict)
        ELSE IF match_patterns(self, query_lower, EDUCATION_QUERY)
          THEN Analysis(EDUCATION_QUERY, EmptyDict)
        ELSE IF match_patterns(self, query_lower, CONTACT_QUERY)
          THEN Analysis(CONTACT_QUERY, EmptyDict)
        ELSE Analysis(GENERAL_INFO, EmptyDict)

\* analyze_query: the (query_type, extracted_info) it returns
analyze_query(self, query) ==
    LET query_lower == Strip(Lower(query))
        student_match == extract_student_name(self, query_lower)
        skill_match == extract_skill(query_lower)
    IN  IF match_patterns(self, query_lower, GREETING)
          THEN Analysis(GREETING, EmptyDict)
        ELSE IF Truthy(student_match)
          THEN Analysis(STUDENT_SEARCH, Dict1("student_name", student_match))
        ELSE IF match_patterns(self, query_lower, SKILL_QUERY)
          THEN Analysis(SKILL_QUERY,
                        IF Truthy(skill_match) THEN Dict1("skill", skill_match) ELSE EmptyDict)
        ELSE IF match_patterns(self, query_lower, EXPERIENCE_QUERY)
          THEN Analysis(EXPERIENCE_QUERY, EmptyDict)
        ELSE IF match_patterns(self, query_lower, EDUCATION_QUERY)
          THEN Analysis(EDUCATION_QUERY, EmptyDict)
        ELSE IF match_patterns(self, query_lower, CONTACT_QUERY)
          THEN Analysis(CONTACT_QUERY, EmptyDict)
        ELSE Analysis(GENERAL_INFO, EmptyDict)

\* an analyze_query that consumes the student rule it tried first
analyze_query_self_pops(self, query) ==
    [self EXCEPT !.patterns[STUDENT_SEARCH] = Tail(@)]

\* the DecisionEngine object after analyze_query: the method assigns no attribute
analyze_query_self(self, query) == self

\* a should_use_rag that sends every query type to the RAG path
should_use_rag_always(query_type) == query_type \in QueryType

\* should_use_rag
should_use_rag(query_type) == query_type \notin { GREETING, UNKNOWN }

(***************************************************************************)
(* get_search_strategy.  The strategy it returns holds a reference to its  *)
(* search_filters dict, as Python dicts are objects: a heap is a sequence  *)
(* of dicts and the address of a dict is its index.  The entities are      *)
(* passed by reference too.                                                *)
(***************************************************************************)

Alloc(heap, d) == Append(heap, d)

\* a search_filters that is the caller's latest dict instead of a new one
NewDictAliased(heap) == heap

\* the dict literal {} of "search_filters": a new object at every call
NewDict(heap) == Alloc(heap, EmptyDict)

\* d[k] = v on the dict at address a
Store(heap, a, k, v) ==
    [heap EXCEPT ![a] = [x \in DOMAIN heap[a] \cup {k} |-> IF x = k THEN v ELSE heap[a][x]]]

\* a strategy dict whose max_results stays at 5 whatever the branch assigns
StrategyDefaultK(uvs, filters, template, k) ==
    [use_vector_search |-> uvs, search_filters |-> filters,
     response_template |-> template, max_results |-> 5]

Strategy(uvs, filters, template, k) ==
    [use_vector_search |-> uvs, search_filters |-> filters,
     response_template |-> template, max_results |-> k]

DefaultMaxResults == 5
StudentMaxResults == 1
SkillMaxResults == 3
ExperienceMaxResults == 5
EducationMaxResults == 5
ContactMaxResults == 3

\* the call's return value and the heap after it; extracted_info is an address
get_search_strategy(heap, query_type, extracted_info) ==
    LET heap1 == NewDict(heap)
        f == Len(heap1)
        info == heap[extracted_info]
    IN  CASE query_type = STUDENT_SEARCH ->
               [ret |-> Strategy(TRUE, f, "student_profile", StudentMaxResults),
                heap |-> Store(heap1, f, "student_name", Get(info, "student_name"))]
          [] query_type = SKILL_QUERY ->
               [ret |-> Strategy(TRUE, f, "skill_focused", SkillMaxResults),
                heap |-> Store(heap1, f, "skill", Get(info, "skill"))]
          [] query_type = EXPERIENCE_QUERY ->
               [ret |-> Strategy(TRUE, f, "experience_focused", ExperienceMaxResults),
                heap |-> heap1]
          [] query_type = EDUCATION_QUERY ->
               [ret |-> Strategy(TRUE, f, "education_focused", EducationMaxResults),
                heap |-> heap1]
          [] query_type = CONTACT_QUERY ->
               [ret |-> Strategy(TRUE, f, "contact_focused", ContactMaxResults),
                heap |-> heap1]
          [] query_type = GREETING ->
               [ret |-> Strategy(FALSE, f, "greeting", DefaultMaxResults),
                heap |-> heap1]
          [] OTHER ->
               [ret |-> Strategy(TRUE, f, "default", DefaultMaxResults),
                heap |-> heap1]

\* a strategy with its search_filters dict read from the heap
Deref(heap, strategy) ==
    [strategy EXCEPT !.search_filters = heap[strategy.search_filters]]

(***************************************************************************)
(* vector_store.py: the metadata filter of the local backend               *)
(* (_apply_filters) and the one the remote backend is given                *)
(* (_add_to_pinecone stores the metadata, _search_pinecone builds the      *)
(* filter, the index evaluates it).                                        *)
(***************************************************************************)

\* dict.get(key, default)
GetOr(d, k, default) == IF k \in DOMAIN d THEN d[k] ELSE default

RECURSIVE Join(_, _)
\* sep.join(xs)
Join(xs, sep) ==
    IF xs = << >> THEN ""
    ELSE IF Len(xs) = 1 THEN xs[1]
    ELSE xs[1] \o sep \o Join(Tail(xs), sep)

\* str(xs) of a list of strings: ['a', 'b']
StrOfList(xs) == "[" \o Join([i \in 1..Len(xs) |-> "'" \o xs[i] \o "'"], ", ") \o "]"

\* an _apply_filters that accepts a passage when one of the two filters holds
apply_filters_any(metadata, filters) ==
    IF DOMAIN filters = {} THEN TRUE
    ELSE IF /\ Truthy(Get(filters, "student_name"))
            /\ Truthy(Get(filters, "skill"))
      THEN \/ Contains(Lower(GetOr(metadata, "student_name", "")),
                       Lower(filters["student_name"]))
           \/ Contains(Lower(Join(GetOr(metadata, "skills", << >>), " ")),
                       Lower(filters["skill"]))
    ELSE IF /\ Truthy(Get(filters, "student_name"))
            /\ ~Contains(Lower(GetOr(metadata, "student_name", "")),
                         Lower(filters["student_name"]))
      THEN FALSE
    ELSE IF /\ Truthy(Get(filters, "skill"))
            /\ ~Contains(Lower(Join(GetOr(metadata, "skills", << >>), " ")),
                         Lower(filters["skill"]))
      THEN FALSE
    ELSE TRUE

\* _apply_filters: whether a passage's metadata passes the filters of a search
apply_filters(metadata, filters) ==
    IF DOMAIN filters = {} THEN TRUE
    ELSE IF /\ Truthy(Get(filters, "student_name"))
            /\ ~Contains(Lower(GetOr(metadata, "student_name", "")),
                         Lower(filters["student_name"]))
      THEN FALSE
    ELSE IF /\ Truthy(Get(filters, "skill"))
            /\ ~Contains(Lower(Join(GetOr(metadata, "skills", << >>), " ")),
                         Lower(filters["skill"]))
      THEN FALSE
    ELSE TRUE

\* the metadata _add_to_pinecone stores with a vector (the fields the filters read)
pinecone_metadata(metadata) ==
    [student_name |-> GetOr(metadata, "student_name", ""),
     skills |-> StrOfList(GetOr(metadata, "skills", << >>))]

\* the pinecone_filters dict _search_pinecone builds: field -> {operator: operand}
pinecone_filters(filters) ==
    [ field \in { x \in {"student_name", "skills"} :
                    \/ x = "student_name" /\ Truthy(Get(filters, "student_name"))
                    \/ x = "skills" /\ Truthy(Get(filters, "skill")) } |->
        IF field = "student_name"
        THEN [op |-> "$eq", arg |-> filters["student_name"]]
        ELSE [op |-> "$regex", arg |-> filters["skill"]] ]

\* the index's evaluation of a metadata filter: every field's condition holds;
\* $eq is equality, $regex with .*arg.* holds when arg (a \w+ token, no
\* metacharacters) occurs in the stored text, in the same letter case
pinecone_accepts(stored, pfilters) ==
    \A field \in DOMAIN pfilters :
        IF pfilters[field].op = "$eq" THEN stored[field] = pfilters[field].arg
        ELSE Contains(stored[field], pfilters[field].arg)

(***************************************************************************)
(* config.py: Config.validate_config over the environment's keys.          *)
(***************************************************************************)

RequiredKeys == << "GROQ_API_KEY", "PINECONE_API_KEY" >>

\* not value or value.strip() == ""
MissingValue(value) == ~Truthy(value) \/ Strip(value) = ""

\* the missing_keys list; validate_config raises ValueError when it is not empty
validate_config(cls) ==
    SelectSeq(RequiredKeys, LAMBDA key : MissingValue(cls[key]))

(***************************************************************************)
(* decision_engine.py: ResponseTemplates.  A template is the sequence of   *)
(* its literal texts and its replacement fields.                           *)
(***************************************************************************)

Text(s) == [slot |-> FALSE, s |-> s]

Field(name) == [slot |-> TRUE, s |-> name]

\* the line break and indentation between the lines of a template
Nl == "\n            "

Templates ==
    [ template_type \in { "greeting", "student_profile", "skill_focused",
                          "experience_focused", "education_focused", "contact_focused",
                          "default" } |->
        CASE template_type = "greeting" ->
               << Text("¡Hola! Soy tu asistente para consultas sobre CVs de estudiantes. "
                       \o Nl \o "Puedo ayudarte a:"
                       \o Nl \o "- Buscar información específica de estudiantes"
                       \o Nl \o "- Consultar habilidades y competencias"
                       \o Nl \o "- Revisar experiencia laboral"
                       \o Nl \o "- Verificar información educativa"
                       \o Nl \o "- Obtener datos de contacto"
                       \o Nl \o Nl \o "¿En qué puedo ayudarte hoy?") >>
          [] template_type = "student_profile" ->
               << Text("Basándome en la información encontrada sobre "),
                  Field("student_name"), Text(":" \o Nl \o Nl), Field("context"),
                  Text(Nl \o Nl \o "Esta información proviene de los CVs almacenados en nuestra base de datos.") >>
          [] template_type = "skill_focused" ->
               << Text("Información sobre habilidades en "), Field("skill"),
                  Text(":" \o Nl \o Nl), Field("context"),
                  Text(Nl \o Nl \o "Estos datos han sido extraídos de los CVs de estudiantes disponibles.") >>
          [] template_type = "experience_focused" ->
               << Text("Información sobre experiencia laboral:" \o Nl \o Nl),
                  Field("context"),
                  Text(Nl \o Nl \o "Datos recopilados de los CVs de estudiantes.") >>
          [] template_type = "education_focused" ->
               << Text("Información educativa encontrada:" \o Nl \o Nl),
                  Field("context"),
                  Text(Nl \o Nl \o "Información extraída de los CVs académicos.") >>
          [] template_type = "contact_focused" ->
               << Text("Datos de contacto disponibles:" \o Nl \o Nl),
                  Field("context"),
                  Text(Nl \o Nl \o "Información de contacto de los CVs.") >>
          [] template_type = "default" ->
               << Text("Basándome en la información disponible:" \o Nl \o Nl),
                  Field("context"),
                  Text(Nl \o Nl \o "Esta respuesta se basa en los CVs de estudiantes almacenados.") >> ]

\* templates.get(template_type, templates["default"])
get_template(template_type) ==
    IF template_type \in DOMAIN Templates THEN Templates[template_type]
    ELSE Templates["default"]

\* "{context}" in template
HasContextField(template) ==
    \E i \in 1..Len(template) : template[i] = Field("context")

\* str(v) of a str or None
Str(v) == IF v = None THEN "None" ELSE v

\* template.format(**kwargs) raises KeyError on a field kwargs does not hold
FormatRaises(template, kwargs) ==
    \E i \in 1..Len(template) : template[i].slot /\ template[i].s \notin DOMAIN kwargs

RECURSIVE Format(_, _)
\* template.format(**kwargs)
Format(template, kwargs) ==
    IF template = << >> THEN ""
    ELSE (IF Head(template).slot THEN Str(kwargs[Head(template).s]) ELSE Head(template).s)
         \o Format(Tail(template), kwargs)

\* the text of a template without fields
TemplateText(template) == Format(template, EmptyDict)

(***************************************************************************)
(* rag_agent.py: RAGAgent.  The two collaborators of a query are the       *)
(* vector store's search (the gateway) and the LLM; what they do in one    *)
(* call is an input of the call.                                           *)
(***************************************************************************)

ContentLimit == 500
HighContextLen == 1000
MediumContextLen == 500

Min(a, b) == IF a < b THEN a ELSE b

\* a search result; the score is in thousandths
Passage(content, metadata, score) ==
    [content |-> content, metadata |-> metadata, score |-> score]

\* f"{score:.3f}" of a score in 0..1 given in thousandths
Fmt3(n) ==
    LET frac == n % 1000
    IN  ToString(n \div 1000) \o "."
        \o (IF frac < 10 THEN "00" ELSE IF frac < 100 THEN "0" ELSE "")
        \o ToString(frac)

\* a context_part that carries the whole content of the passage
context_part_whole(i, result) ==
    "\nDOCUMENTO " \o ToString(i) \o ":"
    \o "\nArchivo: " \o Str(GetOr(result.metadata, "filename", "Desconocido"))
    \o "\nEstudiante: " \o Str(GetOr(result.metadata, "student_name", "Desconocido"))
    \o "\nContenido: " \o result.content
    \o "\nPuntuación: " \o Fmt3(result.score)
    \o "\n---"

\* the f-string _build_context appends for the i-th result
context_part(i, result) ==
    "\nDOCUMENTO " \o ToString(i) \o ":"
    \o "\nArchivo: " \o Str(GetOr(result.metadata, "filename", "Desconocido"))
    \o "\nEstudiante: " \o Str(GetOr(result.metadata, "student_name", "Desconocido"))
    \o "\nContenido: " \o SubSeq(result.content, 1, Min(ContentLimit, Len(result.content)))
    \o "\nPuntuación: " \o Fmt3(result.score)
    \o "\n---"

build_context(search_results) ==
    Join([i \in 1..Len(search_results) |-> context_part(i, search_results[i])], "\n")

\* Archivo:\s*([^\n]+)
ArchivoPattern ==
    Cat(<< L("Archivo:"), Sp0, [t |-> "cap", r |-> [t |-> "plusnot", set |-> {"\n"}]] >>)

\* the elements of a list
Elements(xs) == { xs[i] : i \in 1..Len(xs) }

\* list(sources), without the set
list_only(sources, hash_order) == sources

\* list(set(sources)): the list iterates the set in the order of its hash
\* table, hash_order being the order the strings fall in
list_set(sources, hash_order) ==
    SelectSeq(hash_order, LAMBDA x : x \in Elements(sources))

extract_sources_from_context(context, hash_order) ==
    LET file_matches == re_findall(ArchivoPattern, context, FALSE)
    IN  list_set(file_matches, hash_order)

\* a _calculate_confidence whose thresholds are reached at the limit itself
calculate_confidence_from_limit(context, answer) ==
    IF context = "" THEN "low"
    ELSE IF Len(context) >= 1000 /\ ~Contains(answer, "Desconocido") THEN "high"
    ELSE IF Len(context) >= 500 THEN "medium"
    ELSE "low"

calculate_confidence(context, answer) ==
    IF context = "" THEN "low"
    ELSE IF Len(context) > HighContextLen /\ ~Contains(answer, "Desconocido") THEN "high"
    ELSE IF Len(context) > MediumContextLen THEN "medium"
    ELSE "low"

\* the dict a query returns
Response(answer, query_type, sources, confidence) ==
    [answer |-> answer, query_type |-> query_type, sources |-> sources,
     confidence |-> confidence]

\* no dict was returned (no call yet, or the call raised)
NoResponse == Response(None, None, << >>, None)

NoInfoAnswer ==
    "Lo siento, no encontré información relevante para tu consulta en los CVs almacenados."

ErrorAnswer ==
    "Lo siento, ocurrió un error al generar la respuesta. Por favor, intenta de nuevo."

NotUnderstoodAnswer == "No pude entender tu consulta. ¿Podrías reformularla?"

\* a query that answers an empty search like a failed synthesis
empty_results_response_error(query_type) ==
    Response(ErrorAnswer, query_type, << >>, "error")

\* the dict query returns when the search found nothing
empty_results_response(query_type) ==
    Response(NoInfoAnswer, query_type, << >>, "low")

handle_non_rag_query(query_type, question) ==
    IF query_type = GREETING
    THEN Response(TemplateText(get_template("greeting")), query_type, << >>, "high")
    ELSE Response(NotUnderstoodAnswer, query_type, << >>, "low")

\* what the LLM does in a call: the step of _generate_response that raises
\* ("none": no step does) and the text of the answer
LLMOutcome(fault, answer) == [fault |-> fault, answer |-> answer]

GenerateSteps == << "prompt", "invoke", "content", "template", "sources", "confidence" >>

\* the step comes before the faulty one, so it runs to its end
Before(step, fault) ==
    \/ fault = "none"
    \/ \E i, j \in 1..Len(GenerateSteps) :
          GenerateSteps[i] = step /\ GenerateSteps[j] = fault /\ i < j

\* the step is started
Reached(step, fault) == Before(step, fault) \/ step = fault

\* _generate_response without its try/except: the exception leaves the method
generate_response_no_try(question, context, query_type, search_strategy, llm, hash_order) ==
    LET template_type == search_strategy.response_template
        template == get_template(template_type)
        kwargs == [x \in {"context"} |-> llm.answer] @@ search_strategy.search_filters
        formatted == template_type # "default" /\ HasContextField(template)
        raises == llm.fault # "none" \/ (formatted /\ FormatRaises(template, kwargs))
    IN  [response |-> [answer |-> llm.answer, query_type |-> query_type,
                       sources |-> << >>, confidence |-> "low", context_used |-> TRUE],
         raised |-> raises,
         llm_calls |-> IF llm.fault = "prompt" THEN 0 ELSE 1]

\* a _generate_response that invokes the LLM again when a step after it fails
generate_response_retry(question, context, query_type, search_strategy, llm, hash_order) ==
    LET template_type == search_strategy.response_template
        template == get_template(template_type)
        kwargs == Dict1("context", llm.answer) @@ search_strategy.search_filters
        formatted == template_type # "default" /\ HasContextField(template)
        raises == llm.fault # "none" \/ (formatted /\ FormatRaises(template, kwargs))
        answer == IF formatted THEN Format(template, kwargs) ELSE llm.answer
    IN  [response |->
            IF raises THEN Response(ErrorAnswer, query_type, << >>, "error")
            ELSE Response(answer, query_type,
                          extract_sources_from_context(context, hash_order),
                          calculate_confidence(context, answer))
                 @@ [context_used |-> Len(context) > 0],
         raised |-> FALSE,
         llm_calls |-> IF ~Reached("invoke", llm.fault) THEN 0
                       ELSE IF raises THEN 2 ELSE 1]

\* _generate_response: the dict returned, whether an exception left the method,
\* and how many times llm.invoke was called
generate_response(question, context, query_type, search_strategy, llm, hash_order) ==
    LET template_type == search_strategy.response_template
        template == get_template(template_type)
        kwargs == Dict1("context", llm.answer) @@ search_strategy.search_filters
        formatted == template_type # "default" /\ HasContextField(template)
        raises == llm.fault # "none" \/ (formatted /\ FormatRaises(template, kwargs))
        answer == IF formatted THEN Format(template, kwargs) ELSE llm.answer
    IN  [response |->
            IF raises THEN Response(ErrorAnswer, query_type, << >>, "error")
            ELSE Response(answer, query_type,
                          extract_sources_from_context(context, hash_order),
                          calculate_confidence(context, answer))
                 @@ [context_used |-> Len(context) > 0],
         raised |-> FALSE,
         llm_calls |-> IF Reached("invoke", llm.fault) THEN 1 ELSE 0]

\* what the vector store's search does in a call
GatewayRaises == [raises |-> TRUE, results |-> << >>]

GatewayReturns(results) == [raises |-> FALSE, results |-> results]

\* a call of vector_store.search with the text analyze_query matched on
SearchArgsLowered(query, k, filters) ==
    [query |-> Strip(Lower(query)), k |-> k, filters |-> filters]

\* the arguments of a call of vector_store.search
SearchArgs(query, k, filters) == [query |-> query, k |-> k, filters |-> filters]

\* RAGAgent.query up to the call of the vector store: the query's type, its
\* strategy (search_filters read from the heap) and whether it takes the RAG path
query_route(decision_engine_, user_question) ==
    LET a == analyze_query(decision_engine_, user_question)
        call == get_search_strategy(<< a.extracted_info >>, a.query_type, 1)
    IN  [user_question |-> user_question,
         query_type |-> a.query_type,
         extracted_info |-> a.extracted_info,
         search_strategy |-> Deref(call.heap, call.ret),
         use_rag |-> should_use_rag(a.query_type)]

\* the entry query appends to conversation_history
HistoryEntry(question, answer, query_type) ==
    [question |-> question, answer |-> answer, query_type |-> query_type, timestamp |-> ""]

(***************************************************************************)
(* app.py: the messages of st.session_state.chat_history.                  *)
(***************************************************************************)

UserMessage(content) == [content |-> content, is_user |-> TRUE]

\* response.get(key, default) for the keys of the reply
BotMessage(response) ==
    [content |-> response.answer, is_user |-> FALSE, confidence |-> response.confidence,
     query_type |-> response.query_type, sources |-> response.sources]

(***************************************************************************)
(* vector_store.py: VectorStoreManager.  The FAISS index is the number of  *)
(* vectors it holds (vector i belongs to documents[i]); what the embedding *)
(* model and FAISS compute for a query is the ranking of the vectors, an   *)
(* input of the search.  The Pinecone index is remote: what it returns is  *)
(* an input too.                                                           *)
(***************************************************************************)

\* a langchain Document
Document(page_content, metadata) == [page_content |-> page_content, metadata |-> metadata]

\* self.faiss_index = None
NoFaissIndex == [built |-> FALSE, ntotal |-> 0]

\* faiss.IndexFlatIP(dimension), holding ntotal vectors
FaissIndex(ntotal) == [built |-> TRUE, ntotal |-> ntotal]

\* the attributes of a VectorStoreManager before the backend is initialised
StoreAttributes(use_pinecone_) ==
    [use_pinecone |-> use_pinecone_, faiss_index |-> NoFaissIndex,
     documents |-> << >>, document_metadata |-> << >>, pinecone_index |-> None]

\* what a method did: the object after it, and whether an exception left it
Done(self) == [self |-> self, raised |-> FALSE]

Raised(self) == [self |-> self, raised |-> TRUE]

initialize_faiss(self) == [self EXCEPT !.faiss_index = FaissIndex(0)]

\* an _initialize_pinecone without the try/except
initialize_pinecone_no_fallback(self, pinecone_ok) ==
    IF pinecone_ok THEN Done([self EXCEPT !.pinecone_index = "index"])
    ELSE Raised(self)

\* _initialize_pinecone: any exception of the connection falls back to FAISS
initialize_pinecone(self, pinecone_ok) ==
    IF pinecone_ok THEN Done([self EXCEPT !.pinecone_index = "index"])
    ELSE Done(initialize_faiss([self EXCEPT !.use_pinecone = FALSE]))

\* VectorStoreManager(use_pinecone)
NewVectorStore(use_pinecone_, pinecone_ok) ==
    IF use_pinecone_ THEN initialize_pinecone(StoreAttributes(use_pinecone_), pinecone_ok)
    ELSE Done(initialize_faiss(StoreAttributes(use_pinecone_)))

add_to_faiss(self, documents) ==
    [self EXCEPT !.faiss_index = FaissIndex(@.ntotal + Len(documents)),
                 !.documents = @ \o documents,
                 !.document_metadata = @ \o [i \in 1..Len(documents) |-> documents[i].metadata]]

\* add_documents: the remote upsert raises or not, the local one extends the index
add_documents(self, documents, upsert_ok) ==
    IF documents = << >> THEN Done(self)
    ELSE IF self.use_pinecone THEN (IF upsert_ok THEN Done(self) ELSE Raised(self))
    ELSE Done(add_to_faiss(self, documents))

\* what a search did
SearchResult(results, raised_) == [results |-> results, raised |-> raised_]

\* a vector of the index and its similarity to the query, in thousandths
Hit(idx, score) == [idx |-> idx, score |-> score]

\* results[:k] without the bound
TakeAll(xs, k) == xs

\* results[:k]
Take(xs, k) == SubSeq(xs, 1, Min(k, Len(xs)))

\* a _search_faiss that searches an index without looking at ntotal
search_faiss_unguarded(self, ranked, k, filters) ==
    IF self.faiss_index.ntotal = 0 THEN SearchResult(<< >>, TRUE)
    ELSE SearchResult(Take([i \in 1..Len(ranked) |->
                               Passage(self.documents[ranked[i].idx].page_content,
                                       self.document_metadata[ranked[i].idx],
                                       ranked[i].score)], k), FALSE)

\* _search_faiss; ranked is the whole index by similarity, best first:
\* faiss_index.search returns its first min(k * 2, ntotal) entries; a position
\* that self.documents or self.document_metadata does not hold is an IndexError
search_faiss(self, ranked, k, filters) ==
    IF self.faiss_index.ntotal = 0 THEN SearchResult(<< >>, FALSE)
    ELSE IF \E i \in 1..Min(Min(k * 2, self.faiss_index.ntotal), Len(ranked)) :
               \/ ranked[i].idx > Len(self.documents)
               \/ ranked[i].idx > Len(self.document_metadata)
      THEN SearchResult(<< >>, TRUE)
    ELSE LET found == SubSeq(ranked, 1, Min(k * 2, self.faiss_index.ntotal))
             kept == SelectSeq(found,
                               LAMBDA hit : apply_filters(self.document_metadata[hit.idx],
                                                          filters))
             results == [i \in 1..Len(kept) |->
                            Passage(self.documents[kept[i].idx].page_content,
                                    self.document_metadata[kept[i].idx],
                                    kept[i].score)]
         IN  SearchResult(Take(results, k), FALSE)

\* _search_pinecone: the index's query raises or returns its matches
search_pinecone(self, remote, k, filters) == remote

\* search(query, k, filters)
search(self, ranked, remote, k, filters) ==
    IF self.use_pinecone THEN search_pinecone(self, remote, k, filters)
    ELSE search_faiss(self, ranked, k, filters)

\* the three files of the index directory: which exist, and what they hold
NoFiles == [has_index |-> FALSE, faiss_index |-> NoFaissIndex,
            has_documents |-> FALSE, documents |-> << >>,
            has_metadata |-> FALSE, document_metadata |-> << >>]

\* the directory after the first `written` files of self were written over files
Files(self, files, written) ==
    [has_index |-> files.has_index \/ written >= 1,
     faiss_index |-> IF written >= 1 THEN self.faiss_index ELSE files.faiss_index,
     has_documents |-> files.has_documents \/ written >= 2,
     documents |-> IF written >= 2 THEN self.documents ELSE files.documents,
     has_metadata |-> files.has_metadata \/ written >= 3,
     document_metadata |-> IF written >= 3 THEN self.document_metadata
                           ELSE files.document_metadata]

\* save_local_index: the files after the call; faiss_index.bin, documents.pkl
\* and metadata.pkl are written one after the other, and the call ends after
\* `written` of them (3 unless a write raises or the process is stopped)
save_local_index(self, files, written) ==
    IF ~self.use_pinecone /\ self.faiss_index.built THEN Files(self, files, written)
    ELSE files

\* what load_local_index did: the object after it, and the bool it returned
Loaded(self, ret) == [self |-> self, ret |-> ret]

\* a load_local_index that assigns nothing unless the three files exist
load_local_index_checked(self, files) ==
    IF self.use_pinecone THEN Loaded(self, FALSE)
    ELSE IF ~(files.has_index /\ files.has_documents /\ files.has_metadata)
      THEN Loaded(self, FALSE)
    ELSE Loaded([self EXCEPT !.faiss_index = files.faiss_index,
                             !.documents = files.documents,
                             !.document_metadata = files.document_metadata], TRUE)

\* load_local_index: each file is looked for and assigned in turn, and the
\* first one missing ends the call with what was assigned before it
load_local_index(self, files) ==
    IF self.use_pinecone THEN Loaded(self, FALSE)
    ELSE IF ~files.has_index THEN Loaded(self, FALSE)
    ELSE LET with_index == [self EXCEPT !.faiss_index = files.faiss_index]
             with_documents == [with_index EXCEPT !.documents = files.documents]
             with_metadata == [with_documents EXCEPT
                                  !.document_metadata = files.document_metadata]
         IN  IF ~files.has_documents THEN Loaded(with_index, FALSE)
             ELSE IF ~files.has_metadata THEN Loaded(with_documents, FALSE)
             ELSE Loaded(with_metadata, TRUE)

\* clear_index: the remote delete's failure is caught
clear_index(self) ==
    IF self.use_pinecone THEN self
    ELSE [self EXCEPT !.faiss_index = FaissIndex(0),
                      !.documents = << >>, !.document_metadata = << >>]

\* get_stats: the dict returned (the remote stats raise or not)
get_stats(self, stats_ok) ==
    IF self.use_pinecone
    THEN (IF stats_ok THEN [backend |-> "Pinecone"]
          ELSE [backend |-> "Pinecone", status |-> "Error"])
    ELSE [backend |-> "FAISS Local",
          total_vectors |-> IF self.faiss_index.built THEN self.faiss_index.ntotal ELSE 0,
          total_documents |-> Len(self.documents)]

\* what process_documents did: the store and the files after it, the success
\* of the dict it returned, and whether an exception left it instead
Processed(self, files, success, raised_) ==
    [self |-> self, files |-> files, success |-> success, raised |-> raised_]

\* a process_documents that clears the store before it adds the documents
process_documents_fresh(self, files, documents, upsert_ok, written) ==
    IF documents = << >> THEN Processed(self, files, FALSE, FALSE)
    ELSE LET added == add_documents([self EXCEPT !.faiss_index = FaissIndex(0),
                                                 !.documents = << >>,
                                                 !.document_metadata = << >>],
                                    documents, upsert_ok)
         IN  IF added.raised THEN Processed(added.self, files, FALSE, TRUE)
             ELSE IF self.use_pinecone THEN Processed(added.self, files, TRUE, FALSE)
             ELSE Processed(added.self, save_local_index(added.self, files, written),
                            written = 3, written < 3)

\* RAGAgent.process_documents on the chunks the document processor made of the
\* directory: no chunk ends the call; else they are added and, on the local
\* backend, the index is saved
process_documents(self, files, documents, upsert_ok, written) ==
    IF documents = << >> THEN Processed(self, files, FALSE, FALSE)
    ELSE LET added == add_documents(self, documents, upsert_ok)
         IN  IF added.raised THEN Processed(added.self, files, FALSE, TRUE)
             ELSE IF self.use_pinecone THEN Processed(added.self, files, TRUE, FALSE)
             ELSE Processed(added.self, save_local_index(added.self, files, written),
                            written = 3, written < 3)

(***************************************************************************)
(* Bounds and the inputs the model draws.                                  *)
(***************************************************************************)

\* calls of analyze_query on one text
MaxCalls == 2

\* calls of get_search_strategy in one run
MaxStrategyCalls == 2

\* queries in the chat before it is cleared
MaxQueries == 1

\* the k of a search of the store
MaxK == 2

\* the vectors an index holds before process_documents is no longer called
MaxVectors == 4

\* X of "busca estudiante llamado X"
StudentTokens == { "maria", "Maria", "JUAN", "Ana" }

BuscaText(x) == "busca estudiante llamado " \o x

ClassifyTexts ==
    { BuscaText(x) : x \in StudentTokens } \cup
    { "", "   ", " \t\n ", "asdkjhasd", "Hola", "hola quien es maria", "Buenos días",
      "buenas tardes a todos", "hi", "historial de empleos previos",
      "buscar estudiantes llamados JUAN", "Busca información de Maria",
      "quien es juan", "QUIEN ES  Ana_2 ?", "datos del estudiante pedro",
      "datos de contacto", "estudiante con nombre luis y sus habilidades",
      "busca estudiante que se llama eva", "que habilidades tiene",
      "quien sabe de python", "experiencia en java", "experiencia laboral",
      "experiencia laboral y skills", "conocimientos en sql", "tecnologías que maneja",
      "trabajos anteriores", "trabajo anterior", "donde ha trabajado",
      "empresas en las que trabajó", "educación", "educación académica",
      "universidad y contacto", "que carrera", "dónde estudió", "email",
      "como contactar", "  saludos  ", "qué tal", "como estudia", "quien es",
      "información de ", "¿Qué estudiantes tienes en la base de datos?",
      "Busca estudiantes con experiencia en Python",
      "¿Quién tiene conocimientos en Machine Learning?",
      "Muéstrame información sobre experiencia laboral", "conoce de",
      "domina\tde\nrust", "hello world", "Correo de ana",
      "trabajos anteriores en la universidad", "donde estudia y su email" }

\* the entities a caller passes to get_search_strategy
EntityDicts ==
    { EmptyDict, Dict1("student_name", "maria"), Dict1("skill", "python"),
      Dict1("student_name", "ana") @@ Dict1("skill", "sql") }

\* metadata of indexed chunks (document_processor.py: a student_name has two
\* words or more, or is "Desconocido"; skills are as written in the CV)
Metadatas ==
    { [student_name |-> n, skills |-> sk, filename |-> "cv.pdf"] :
        n \in { "Maria Lopez", "maria lopez", "Juan Perez", "Desconocido" },
        sk \in { << >>, << "Python" >>, << "python", "SQL" >>, << "Java", "SQL" >> } }
    \cup { [filename |-> "cv.pdf"] }

\* search filters: those get_search_strategy builds, and both keys at once
FilterDicts ==
    { EmptyDict, Dict1("student_name", None), Dict1("skill", None),
      Dict1("student_name", "maria"), Dict1("student_name", "juan"),
      Dict1("skill", "python"), Dict1("skill", "sql"),
      Dict1("student_name", "maria") @@ Dict1("skill", "sql"),
      Dict1("student_name", "juan") @@ Dict1("skill", "sql"),
      Dict1("student_name", "MARIA") @@ Dict1("skill", "Python"),
      Dict1("student_name", "") @@ Dict1("skill", "sql"),
      Dict1("student_name", "juan") @@ Dict1("skill", ""),
      Dict1("student_name", None) @@ Dict1("skill", None),
      Dict1("student_name", "") , Dict1("skill", "") }

\* values of an API key variable: unset, empty, blank, set
KeyValues == { None, "", " ", "gsk_live" }

Envs == [ {"GROQ_API_KEY", "PINECONE_API_KEY"} -> KeyValues ]

\* the texts typed into the chat
ChatTexts ==
    { "  Hola quien es ana", "quien es Ana", "sabe sql", "xyz", "asdkjhasd",
      "Busca información de Maria" }

\* the length of the filler of a long passage
LongContentLen == 600

RECURSIVE Filler(_)
\* a text of n characters
Filler(n) ==
    IF n = 0 THEN ""
    ELSE IF n % 2 = 0 THEN Filler(n \div 2) \o Filler(n \div 2)
    ELSE "x" \o Filler(n - 1)

PassageA ==
    Passage("Maria Lopez. Python, SQL.",
            [filename |-> "cv_maria.pdf", student_name |-> "Maria Lopez",
             skills |-> << "Python", "SQL" >>], 873)

PassageB ==
    Passage("Experiencia: Archivo: otro.pdf",
            [filename |-> "cv_maria.pdf", student_name |-> "Maria Lopez",
             skills |-> << "Python", "SQL" >>], 91)

\* a passage longer than the context keeps
PassageLong ==
    Passage("Proyectos: " \o Filler(LongContentLen),
            [filename |-> "cv_juan.pdf", student_name |-> "Juan Perez",
             skills |-> << "Java" >>], 1000)

\* what a search can return, best first
ResultLists ==
    { << >>, << PassageA >>, << PassageA, PassageB >>, << PassageLong >>,
      << PassageLong, PassageA >> }

\* what the vector store does when asked for k results
GatewayOutcomes(k) ==
    { GatewayRaises } \cup { GatewayReturns(rs) : rs \in { r \in ResultLists : Len(r) <= k } }

\* the file names a context can hold
SourceNames == { "cv_maria.pdf", "otro.pdf", "cv_juan.pdf" }

\* the orders a set of these strings can be iterated in
HashOrders ==
    { xs \in [1..Cardinality(SourceNames) -> SourceNames] : Elements(xs) = SourceNames }

LLMOutcomes ==
    { LLMOutcome("none", "Maria Lopez sabe Python.") }
    \cup { LLMOutcome(GenerateSteps[i], "") : i \in 1..Len(GenerateSteps) }

\* the i-th chunk the document processor produces
Corpus(i) ==
    Document("cv chunk " \o ToString(i),
             CASE i % 3 = 1 -> [filename |-> "cv_maria.pdf", student_name |-> "Maria Lopez",
                                skills |-> << "Python", "SQL" >>]
               [] i % 3 = 2 -> [filename |-> "cv_juan.pdf", student_name |-> "Juan Perez",
                                skills |-> << "Java", "SQL" >>]
               [] OTHER -> [filename |-> "cv_maria.pdf", student_name |-> "maria lopez",
                            skills |-> << >>])

\* the lengths of the contexts a confidence is computed for: around both thresholds
ContextLengths == { 0, 1, 499, 500, 501, 999, 1000, 1001, 1500 }

\* the answers a confidence is computed for
ConfidenceAnswers ==
    { "", "Maria Lopez sabe Python.", "Desconocido", "Estudiante: Desconocido.",
      "desconocido", "No hay datos de DESCONOCIDO" }

\* the chunks of the CVs in the directory, in the order they are processed
Chunks == << Corpus(1), Corpus(2), Corpus(3) >>

\* the chunks the document processor makes of a PDF directory: none when the
\* directory holds no PDF
Directories == { << >>, << Corpus(1), Corpus(2) >> }

\* the directories typed into the page's "Directorio de PDFs"
PageDirectories == Directories \cup { << Corpus(3) >> }

\* the filters of a search of the store
StoreFilters ==
    { EmptyDict, Dict1("student_name", "maria"), Dict1("skill", "java") }

\* the orders of n vectors
IndexOrders(n) ==
    { p \in [1..n -> 1..n] : \A i, j \in 1..n : i # j => p[i] # p[j] }

\* the similarities of n vectors by rank: all different, or all equal
ScoresByRank(n) ==
    { [r \in 1..n |-> 900 - 100 * r], [r \in 1..n |-> 500] }

\* what FAISS can rank an index of n vectors as: every order, scores not increasing
Rankings(n) ==
    { [r \in 1..n |-> Hit(p[r], sc[r])] : p \in IndexOrders(n), sc \in ScoresByRank(n) }

\* what the remote index does when queried
RemoteOutcomes ==
    { SearchResult(<< >>, TRUE), SearchResult(<< >>, FALSE),
      SearchResult(<< PassageA >>, FALSE) }

(***************************************************************************)
(* State.                                                                  *)
(***************************************************************************)

VARIABLES
    decision_engine,       \* the DecisionEngine object
    cl_query,              \* the text analyze_query is called on
    cl_first,              \* what its first call returned
    cl_last,               \* what its latest call returned
    cl_calls,              \* how many calls were made
    heap,                  \* the dicts get_search_strategy's callers hold
    st_log,                \* the calls of get_search_strategy, in order
    flt_metadata,          \* the metadata of a candidate passage
    flt_filters,           \* the filters of a search
    flt_done,              \* both backends have evaluated the filter
    flt_local,             \* _apply_filters accepted the passage
    flt_remote,            \* the remote index accepted the passage
    env,                   \* Config's API keys
    process,               \* "importing", "running" or "crashed"
    agent_up,              \* st.session_state.rag_agent is set
    use_pinecone,          \* rag_agent.vector_store.use_pinecone
    conversation_history,  \* rag_agent.conversation_history
    chat_history,          \* st.session_state.chat_history
    pc,                    \* where process_user_query is: "idle", "search", "generate"
    frame,                 \* the query being processed (or the last one)
    response,              \* what RAGAgent.query returned last
    raised,                \* the last process_user_query ended by an exception
    vector_store,          \* a VectorStoreManager object
    vs_init,               \* how it was constructed
    files,                 \* the saved index in Config.VECTOR_STORE_PATH
    search_log,            \* its latest search
    ingest_log,            \* the latest call of process_documents
    documents_processed,   \* st.session_state.documents_processed
    cf_context,            \* the context a confidence is computed for
    cf_answer,             \* the answer it is computed for
    cf_confidence          \* the confidence computed

classify_vars == << cl_query, cl_first, cl_last, cl_calls >>

strategy_vars == << heap, st_log >>

filter_vars == << flt_metadata, flt_filters, flt_done, flt_local, flt_remote >>

app_vars == << env, process, agent_up, use_pinecone, conversation_history, chat_history,
               pc, frame, response, raised >>

store_vars == << vector_store, vs_init, files, search_log, ingest_log, documents_processed >>

confidence_vars == << cf_context, cf_answer, cf_confidence >>

vars == << decision_engine, classify_vars, strategy_vars, filter_vars, app_vars,
           store_vars, confidence_vars >>

NoAnalysis == Analysis(None, EmptyDict)

NoFrame ==
    [route |-> [user_question |-> None, query_type |-> None, extracted_info |-> EmptyDict,
                search_strategy |-> Strategy(FALSE, EmptyDict, None, 0), use_rag |-> FALSE],
     search_calls |-> << >>, gateway |-> GatewayReturns(<< >>), context |-> "",
     generated |-> FALSE, fault |-> FALSE, llm_calls |-> 0]

\* no VectorStoreManager was constructed
NoConstruction ==
    [built |-> FALSE, use_pinecone |-> FALSE, pinecone_ok |-> FALSE, raised |-> FALSE,
     self |-> StoreAttributes(FALSE)]

\* no search was made
NoSearch ==
    [done |-> FALSE, use_pinecone |-> FALSE, ntotal |-> 0, ranked |-> << >>, k |-> 0,
     filters |-> EmptyDict, documents |-> << >>, document_metadata |-> << >>,
     out |-> SearchResult(<< >>, FALSE)]

\* process_documents was not called
NoIngest ==
    [done |-> FALSE, found |-> 0, held |-> FALSE, success |-> FALSE, raised |-> FALSE,
     unchanged |-> TRUE, vectors |-> << 0, 0 >>, documents |-> << 0, 0 >>,
     saved |-> << 0, 0 >>]

StoreIdle ==
    /\ vector_store = StoreAttributes(FALSE) /\ vs_init = NoConstruction
    /\ files = NoFiles /\ search_log = NoSearch /\ ingest_log = NoIngest
    /\ documents_processed = FALSE

ConfidenceIdle == cf_context = "" /\ cf_answer = "" /\ cf_confidence = None

ClassifyIdle ==
    /\ cl_query = "" /\ cl_first = NoAnalysis /\ cl_last = NoAnalysis /\ cl_calls = 0

StrategyIdle == heap = << >> /\ st_log = << >>

FilterIdle ==
    /\ flt_metadata = EmptyDict /\ flt_filters = EmptyDict
    /\ flt_done = FALSE /\ flt_local = FALSE /\ flt_remote = FALSE

AppIdle ==
    /\ env = [k \in {"GROQ_API_KEY", "PINECONE_API_KEY"} |-> "gsk_live"]
    /\ process = "importing" /\ agent_up = FALSE /\ use_pinecone = FALSE
    /\ conversation_history = << >> /\ chat_history = << >>
    /\ pc = "idle" /\ frame = NoFrame /\ response = NoResponse /\ raised = FALSE

(***************************************************************************)
(* The classifier applied to a text, MaxCalls times.                       *)
(***************************************************************************)

InitClassify ==
    /\ decision_engine = NewDecisionEngine
    /\ cl_query \in ClassifyTexts
    /\ cl_first = NoAnalysis /\ cl_last = NoAnalysis /\ cl_calls = 0
    /\ StrategyIdle /\ FilterIdle /\ AppIdle /\ StoreIdle /\ ConfidenceIdle

AnalyzeQuery ==
    /\ cl_calls < MaxCalls
    /\ cl_last' = analyze_query(decision_engine, cl_query)
    /\ cl_first' = IF cl_calls = 0 THEN cl_last' ELSE cl_first
    /\ cl_calls' = cl_calls + 1
    /\ decision_engine' = analyze_query_self(decision_engine, cl_query)
    /\ UNCHANGED << cl_query, strategy_vars, filter_vars, app_vars, store_vars, confidence_vars >>

NextClassify == AnalyzeQuery

SpecClassify == InitClassify /\ [][NextClassify]_vars

(***************************************************************************)
(* The strategy resolver called MaxStrategyCalls times by a caller that    *)
(* keeps what it passed and what it got.                                   *)
(***************************************************************************)

InitStrategy ==
    /\ decision_engine = NewDecisionEngine
    /\ StrategyIdle /\ ClassifyIdle /\ FilterIdle /\ AppIdle /\ StoreIdle /\ ConfidenceIdle

GetSearchStrategy(query_type, extracted_info) ==
    LET heap0 == Alloc(heap, extracted_info)
        a == Len(heap0)
        call == get_search_strategy(heap0, query_type, a)
    IN  /\ Len(st_log) < MaxStrategyCalls
        /\ heap' = call.heap
        /\ st_log' = Append(st_log, [query_type |-> query_type,
                                     info_addr |-> a,
                                     info |-> extracted_info,
                                     ret |-> call.ret,
                                     value |-> Deref(call.heap, call.ret)])
        /\ UNCHANGED << decision_engine, classify_vars, filter_vars, app_vars, store_vars, confidence_vars >>

NextStrategy ==
    \E query_type \in QueryType, extracted_info \in EntityDicts :
        GetSearchStrategy(query_type, extracted_info)

SpecStrategy == InitStrategy /\ [][NextStrategy]_vars

(***************************************************************************)
(* One candidate passage and one filter, evaluated by both backends.       *)
(***************************************************************************)

InitFilter ==
    /\ decision_engine = NewDecisionEngine
    /\ flt_metadata \in Metadatas
    /\ flt_filters \in FilterDicts
    /\ flt_done = FALSE /\ flt_local = FALSE /\ flt_remote = FALSE
    /\ ClassifyIdle /\ StrategyIdle /\ AppIdle /\ StoreIdle /\ ConfidenceIdle

EvaluateFilter ==
    /\ ~flt_done
    /\ flt_done' = TRUE
    /\ flt_local' = apply_filters(flt_metadata, flt_filters)
    /\ flt_remote' = pinecone_accepts(pinecone_metadata(flt_metadata),
                                      pinecone_filters(flt_filters))
    /\ UNCHANGED << decision_engine, flt_metadata, flt_filters, classify_vars,
                    strategy_vars, app_vars, store_vars, confidence_vars >>

NextFilter == EvaluateFilter

SpecFilter == InitFilter /\ [][NextFilter]_vars

(***************************************************************************)
(* The application: config.py is imported, the sidebar initialises the     *)
(* system, the chat processes queries (app.py, rag_agent.py).  A query is  *)
(* processed in steps that end where a collaborator is called; no other    *)
(* handler runs in between (Streamlit runs one script at a time).          *)
(***************************************************************************)

Init ==
    /\ decision_engine = NewDecisionEngine
    /\ env \in Envs
    /\ process = "importing" /\ agent_up = FALSE /\ use_pinecone = FALSE
    /\ conversation_history = << >> /\ chat_history = << >>
    /\ pc = "idle" /\ frame = NoFrame /\ response = NoResponse /\ raised = FALSE
    /\ ClassifyIdle /\ StrategyIdle /\ FilterIdle /\ StoreIdle /\ ConfidenceIdle

\* config.py, lines 70-75: the module validates the configuration when it is
\* imported and lets the ValueError through
ImportConfig ==
    /\ process = "importing"
    /\ process' = IF validate_config(env) # << >> THEN "crashed" ELSE "running"
    /\ UNCHANGED << decision_engine, classify_vars, strategy_vars, filter_vars, store_vars,
                    confidence_vars, env,
                    agent_up, use_pinecone, conversation_history, chat_history, pc,
                    frame, response, raised >>

\* initialize_rag_agent(use_pinecone): RAGAgent.__init__ validates the
\* configuration, then builds the engine and the vector store, which falls back
\* to FAISS when Pinecone cannot be initialised; an exception leaves the session
\* as it was
InitializeSystem(checkbox, pinecone_ok) ==
    /\ process = "running" /\ pc = "idle"
    /\ IF validate_config(env) # << >>
       THEN UNCHANGED << decision_engine, agent_up, use_pinecone, conversation_history >>
       ELSE /\ decision_engine' = NewDecisionEngine
            /\ agent_up' = TRUE
            /\ use_pinecone' = (checkbox /\ pinecone_ok)
            /\ conversation_history' = << >>
    /\ UNCHANGED << classify_vars, strategy_vars, filter_vars, store_vars,
                    confidence_vars, env, process,
                    chat_history, pc, frame, response, raised >>

\* process_user_query(query) up to the call of vector_store.search, or to its
\* end for a query that takes no RAG path
ProcessUserQuery(user_question) ==
    /\ process = "running" /\ pc = "idle" /\ agent_up
    /\ Len(chat_history) + 2 <= 2 * MaxQueries
    /\ \E route \in { query_route(decision_engine, user_question) } :
        LET strategy == route.search_strategy
            reply == handle_non_rag_query(route.query_type, user_question)
        IN  /\ decision_engine' = analyze_query_self(decision_engine, user_question)
            /\ raised' = FALSE
            /\ IF ~route.use_rag
               THEN /\ frame' = [NoFrame EXCEPT !.route = route]
                    /\ response' = reply
                    /\ chat_history' = chat_history \o << UserMessage(user_question),
                                                          BotMessage(reply) >>
                    /\ pc' = "idle"
               ELSE /\ frame' = [NoFrame EXCEPT
                                    !.route = route,
                                    !.search_calls = << SearchArgs(user_question,
                                                                   strategy.max_results,
                                                                   strategy.search_filters) >>]
                    /\ response' = NoResponse
                    /\ chat_history' = Append(chat_history, UserMessage(user_question))
                    /\ pc' = "search"
            /\ UNCHANGED << classify_vars, strategy_vars, filter_vars, store_vars,
                    confidence_vars, env, process,
                            agent_up, use_pinecone, conversation_history >>

\* vector_store.search raises or returns; query lets the exception through, and
\* so does process_user_query; no results end the query with the fixed answer;
\* else the context is built
SearchReturns(gateway) ==
    /\ pc = "search"
    /\ frame' = [frame EXCEPT !.gateway = gateway,
                              !.context = build_context(gateway.results)]
    /\ IF gateway.raises
       THEN /\ raised' = TRUE
            /\ pc' = "idle"
            /\ UNCHANGED << response, chat_history >>
       ELSE IF gateway.results = << >>
       THEN /\ response' = empty_results_response(frame.route.query_type)
            /\ chat_history' = Append(chat_history, BotMessage(response'))
            /\ pc' = "idle"
            /\ UNCHANGED raised
       ELSE /\ pc' = "generate"
            /\ UNCHANGED << response, chat_history, raised >>
    /\ UNCHANGED << decision_engine, classify_vars, strategy_vars, filter_vars, store_vars,
                    confidence_vars, env,
                    process, agent_up, use_pinecone, conversation_history >>

\* _generate_response with what the LLM does, then the entry
\* in conversation_history and the reply in the chat
GenerateResponse(llm, hash_order) ==
    /\ pc = "generate"
    /\ \E g \in { generate_response(frame.route.user_question, frame.context,
                                  frame.route.query_type, frame.route.search_strategy,
                                  llm, hash_order) } :
        LET route == frame.route
        IN  /\ frame' = [frame EXCEPT !.generated = TRUE, !.fault = (llm.fault # "none"),
                                      !.llm_calls = g.llm_calls]
            /\ pc' = "idle"
            /\ IF g.raised
               THEN /\ raised' = TRUE
                    /\ UNCHANGED << response, conversation_history, chat_history >>
               ELSE /\ response' = g.response
                    /\ conversation_history' =
                          Append(conversation_history,
                                 HistoryEntry(route.user_question, g.response.answer,
                                              route.query_type))
                    /\ chat_history' = Append(chat_history, BotMessage(g.response))
                    /\ UNCHANGED raised
            /\ UNCHANGED << decision_engine, classify_vars, strategy_vars, filter_vars, store_vars,
                    confidence_vars, env,
                            process, agent_up, use_pinecone >>

\* the sidebar's "Limpiar Chat"
ClearChat ==
    /\ process = "running" /\ pc = "idle"
    /\ chat_history' = << >>
    /\ conversation_history' = IF agent_up THEN << >> ELSE conversation_history
    /\ UNCHANGED << decision_engine, classify_vars, strategy_vars, filter_vars, store_vars,
                    confidence_vars, env,
                    process, agent_up, use_pinecone, pc, frame, response, raised >>

Next ==
    \/ ImportConfig
    \/ \E checkbox \in BOOLEAN, pinecone_ok \in BOOLEAN :
          InitializeSystem(checkbox, pinecone_ok)
    \/ \E user_question \in ChatTexts : ProcessUserQuery(user_question)
    \/ \E gateway \in GatewayOutcomes(frame.route.search_strategy.max_results) :
          SearchReturns(gateway)
    \/ \E llm \in LLMOutcomes, hash_order \in HashOrders : GenerateResponse(llm, hash_order)
    \/ ClearChat

Spec == Init /\ [][Next]_vars

(***************************************************************************)
(* _calculate_confidence applied to a context and an answer.               *)
(***************************************************************************)

InitConfidence ==
    /\ decision_engine = NewDecisionEngine
    /\ cf_context \in { Filler(n) : n \in ContextLengths }
    /\ cf_answer \in ConfidenceAnswers
    /\ cf_confidence = None
    /\ ClassifyIdle /\ StrategyIdle /\ FilterIdle /\ AppIdle /\ StoreIdle

CalculateConfidence ==
    /\ cf_confidence = None
    /\ cf_confidence' = calculate_confidence(cf_context, cf_answer)
    /\ UNCHANGED << cf_context, cf_answer, decision_engine, classify_vars, strategy_vars,
                    filter_vars, app_vars, store_vars >>

NextConfidence == CalculateConfidence

SpecConfidence == InitConfidence /\ [][NextConfidence]_vars

(***************************************************************************)
(* A VectorStoreManager: constructed once, then used by its callers        *)
(* (rag_agent.py, app.py) for its lifetime.                                *)
(***************************************************************************)

InitStore ==
    /\ decision_engine = NewDecisionEngine
    /\ StoreIdle /\ ClassifyIdle /\ StrategyIdle /\ FilterIdle /\ AppIdle
    /\ ConfidenceIdle

\* the object is constructed and usable
StoreUp == vs_init.built /\ ~vs_init.raised

other_vars ==
    << decision_engine, classify_vars, strategy_vars, filter_vars, app_vars,
       confidence_vars, ingest_log, documents_processed >>

\* VectorStoreManager(use_pinecone): the connection to Pinecone succeeds or not
Construct(use_pinecone_, pinecone_ok) ==
    /\ ~vs_init.built
    /\ \E made \in { NewVectorStore(use_pinecone_, pinecone_ok) } :
          /\ vs_init' = [built |-> TRUE, use_pinecone |-> use_pinecone_,
                         pinecone_ok |-> pinecone_ok, raised |-> made.raised,
                         self |-> made.self]
          /\ vector_store' = made.self
    /\ UNCHANGED << files, search_log, other_vars >>

\* add_documents with the next n chunks of the directory
AddDocuments(n, upsert_ok) ==
    /\ StoreUp
    /\ Len(vector_store.documents) + n <= Len(Chunks)
    /\ vector_store.faiss_index.ntotal + n <= Len(Chunks)
    /\ vector_store' =
          add_documents(vector_store,
                        SubSeq(Chunks, Len(vector_store.documents) + 1,
                               Len(vector_store.documents) + n),
                        upsert_ok).self
    /\ UNCHANGED << vs_init, files, search_log, other_vars >>

\* search(query, k, filters): the embedding of the query ranks the local
\* vectors; the remote index answers or raises
Search(k, filters, ranked, remote) ==
    /\ StoreUp
    /\ search_log' = [done |-> TRUE, use_pinecone |-> vector_store.use_pinecone,
                      ntotal |-> vector_store.faiss_index.ntotal, ranked |-> ranked,
                      k |-> k, filters |-> filters,
                      documents |-> vector_store.documents,
                      document_metadata |-> vector_store.document_metadata,
                      out |-> search(vector_store, ranked, remote, k, filters)]
    /\ UNCHANGED << vector_store, vs_init, files, other_vars >>

SaveLocalIndex(written) ==
    /\ StoreUp
    /\ files' = save_local_index(vector_store, files, written)
    /\ UNCHANGED << vector_store, vs_init, search_log, other_vars >>

LoadLocalIndex ==
    /\ StoreUp
    /\ vector_store' = load_local_index(vector_store, files).self
    /\ UNCHANGED << vs_init, files, search_log, other_vars >>

ClearIndex ==
    /\ StoreUp
    /\ vector_store' = clear_index(vector_store)
    /\ UNCHANGED << vs_init, files, search_log, other_vars >>

\* get_stats returns a dict and assigns nothing
GetStats(stats_ok) ==
    /\ StoreUp
    /\ get_stats(vector_store, stats_ok).backend \in { "Pinecone", "FAISS Local" }
    /\ UNCHANGED vars

NextStore ==
    \/ \E use_pinecone_ \in BOOLEAN, pinecone_ok \in BOOLEAN :
          Construct(use_pinecone_, pinecone_ok)
    \/ \E n \in 0..2, upsert_ok \in BOOLEAN : AddDocuments(n, upsert_ok)
    \/ \E k \in 1..MaxK, filters \in StoreFilters,
          ranked \in IF vector_store.use_pinecone THEN { << >> }
                     ELSE Rankings(vector_store.faiss_index.ntotal),
          remote \in IF vector_store.use_pinecone THEN RemoteOutcomes
                     ELSE { SearchResult(<< >>, FALSE) } :
          Search(k, filters, ranked, remote)
    \/ SaveLocalIndex(3)
    \/ LoadLocalIndex
    \/ ClearIndex
    \/ \E stats_ok \in BOOLEAN : GetStats(stats_ok)

SpecStore == InitStore /\ [][NextStore]_vars

(***************************************************************************)
(* The local index and its directory: a VectorStoreManager whose documents *)
(* come from process_documents and whose saves can end before the third    *)
(* file.                                                                   *)
(***************************************************************************)

\* process_documents(pdf_directory)
ProcessDocuments(documents, upsert_ok, written) ==
    /\ StoreUp
    /\ vector_store.faiss_index.ntotal + Len(documents) <= MaxVectors
    /\ Len(vector_store.documents) + Len(documents) <= MaxVectors
    /\ Len(vector_store.document_metadata) + Len(documents) <= MaxVectors
    /\ \E made \in { process_documents(vector_store, files, documents, upsert_ok,
                                        written) } :
          /\ vector_store' = made.self
          /\ files' = made.files
          /\ ingest_log' =
                [done |-> TRUE, found |-> Len(documents),
                 held |-> \A i \in 1..Len(documents) :
                             documents[i] \in Elements(vector_store.documents),
                 success |-> made.success, raised |-> made.raised,
                 unchanged |-> (made.self = vector_store /\ made.files = files),
                 vectors |-> << vector_store.faiss_index.ntotal,
                                made.self.faiss_index.ntotal >>,
                 documents |-> << Len(vector_store.documents), Len(made.self.documents) >>,
                 saved |-> << Len(files.documents), Len(made.files.documents) >>]
    /\ UNCHANGED << vs_init, search_log, documents_processed, decision_engine,
                    classify_vars, strategy_vars, filter_vars, app_vars, confidence_vars >>

\* the vectors of the index in the order they were added, all equally similar
InsertionRanking(n) == [r \in 1..n |-> Hit(r, 500)]

NextIndex ==
    \/ Construct(FALSE, FALSE)
    \/ \E documents \in Directories, written \in 0..3 :
          ProcessDocuments(documents, TRUE, written)
    \/ \E written \in 0..3 : SaveLocalIndex(written)
    \/ LoadLocalIndex
    \/ ClearIndex

SpecIndex == InitStore /\ [][NextIndex]_vars

(***************************************************************************)
(* The session of the Streamlit page (app.py): the agent of the session,   *)
(* its vector store, the index directory and documents_processed.  The     *)
(* agent exists once vs_init.built; each initialisation makes a new one.   *)
(***************************************************************************)

\* what the page leaves alone
page_unchanged ==
    << ingest_log, decision_engine, classify_vars, strategy_vars, filter_vars, app_vars,
       confidence_vars >>

\* initialize_rag_agent(use_pinecone): RAGAgent() raises on an invalid
\* configuration and the session keeps what it had; else the new agent loads
\* the saved index and replaces the agent of the session
InitializeRagAgent(checkbox, pinecone_ok, config_ok) ==
    /\ IF ~config_ok
       THEN UNCHANGED << vector_store, vs_init, documents_processed >>
       ELSE \E made \in { NewVectorStore(checkbox, pinecone_ok) } :
               \E loaded \in { IF made.self.use_pinecone THEN Loaded(made.self, TRUE)
                                ELSE load_local_index(made.self, files) } :
                  /\ vector_store' = loaded.self
                  /\ vs_init' = [built |-> TRUE, use_pinecone |-> checkbox,
                                 pinecone_ok |-> pinecone_ok, raised |-> FALSE,
                                 self |-> made.self]
                  /\ documents_processed' = (loaded.ret \/ documents_processed)
    /\ UNCHANGED << files, search_log, page_unchanged >>

\* the sidebar's "Procesar Documentos": process_documents(pdf_directory) of app.py
ProcessDocumentsButton(documents, upsert_ok, written) ==
    /\ StoreUp
    /\ vector_store.faiss_index.ntotal + Len(documents) <= MaxVectors
    /\ Len(vector_store.documents) + Len(documents) <= MaxVectors
    /\ \E made \in { process_documents(vector_store, files, documents, upsert_ok,
                                        written) } :
          /\ vector_store' = made.self
          /\ files' = made.files
          /\ documents_processed' =
                IF ~made.raised /\ made.success THEN TRUE ELSE documents_processed
    /\ UNCHANGED << vs_init, search_log, page_unchanged >>

\* the sidebar's "Guardar Índice"
SaveIndexButton(written) ==
    /\ StoreUp /\ ~vector_store.use_pinecone
    /\ files' = save_local_index(vector_store, files, written)
    /\ UNCHANGED << vector_store, vs_init, search_log, documents_processed, page_unchanged >>

\* the sidebar's "Limpiar Índice Vectorial"
ClearIndexButton ==
    /\ StoreUp
    /\ vector_store' = clear_index(vector_store)
    /\ documents_processed' = FALSE
    /\ UNCHANGED << vs_init, files, search_log, page_unchanged >>

\* main: the chat is shown, and a query searched, once there is an agent and
\* documents_processed
ChatQuery(k, remote) ==
    /\ documents_processed
    /\ Search(k, EmptyDict,
              IF vector_store.use_pinecone THEN << >>
              ELSE InsertionRanking(vector_store.faiss_index.ntotal), remote)

\* the connection to Pinecone always fails here: _initialize_pinecone reads
\* Config.PINECONE_ENVIRONMENT (vector_store.py:39) and Config defines
\* PINECONE_ENV only (config.py:16), so every agent of the page is local;
\* the saves of the page write their three files
NextPage ==
    \/ \E checkbox \in BOOLEAN, config_ok \in BOOLEAN :
          InitializeRagAgent(checkbox, FALSE, config_ok)
    \/ \E documents \in PageDirectories : ProcessDocumentsButton(documents, TRUE, 3)
    \/ SaveIndexButton(3)
    \/ ClearIndexButton
    \/ \E k \in 1..MaxK : ChatQuery(k, SearchResult(<< >>, FALSE))

SpecPage == InitStore /\ [][NextPage]_vars

(***************************************************************************)
(* Properties of the classifier (SpecClassify).                            *)
(***************************************************************************)

\* the text analyze_query matches its rules on
Normalized(query) == Strip(Lower(query))

\* a rule of the category matches the text
RuleMatches(query, query_type) ==
    match_patterns(NewDecisionEngine, Normalized(query), query_type)

\* the categories that have rules, highest priority first
PriorityOrder ==
    << GREETING, STUDENT_SEARCH, SKILL_QUERY, EXPERIENCE_QUERY, EDUCATION_QUERY,
       CONTACT_QUERY >>

\* the categories a rule of which matches the text
MatchingCategories(query) ==
    { i \in 1..Len(PriorityOrder) : RuleMatches(query, PriorityOrder[i]) }

\* the highest-priority category a rule of which matches, else general-info
FirstMatching(query) ==
    IF MatchingCategories(query) = {} THEN GENERAL_INFO
    ELSE PriorityOrder[Least(MatchingCategories(query))]

\* C4: for every text "busca estudiante llamado X", X one alphabetic token in
\* any letter case, analyze_query returns student-lookup with student_name = X
C4_StudentNameIsToken ==
    \A x \in StudentTokens :
        (cl_calls > 0 /\ cl_query = BuscaText(x)) =>
            cl_last = Analysis(STUDENT_SEARCH, Dict1("student_name", x))

\* C6: analyze_query is total and deterministic: every call returns one
\* category of QueryType, general-info when no rule of another category
\* matches, the same category and entities as the first call on the text, and
\* the engine is left as it was built
C6_TotalDeterministic ==
    cl_calls > 0 =>
        /\ cl_last.query_type \in QueryType
        /\ DOMAIN cl_last.extracted_info \subseteq { "student_name", "skill" }
        /\ (MatchingCategories(cl_query) = {}) =>
               cl_last = Analysis(GENERAL_INFO, EmptyDict)
        /\ cl_last = cl_first
        /\ decision_engine = NewDecisionEngine

\* C6: a text no rule matches was classified twice
C6_Witness ==
    /\ cl_calls = MaxCalls
    /\ cl_query = "asdkjhasd"
    /\ MatchingCategories(cl_query) = {}
    /\ cl_last.query_type = GENERAL_INFO

\* C7: classification is first-match-wins over greeting > student-lookup >
\* skill-lookup > experience-lookup > education-lookup > contact-lookup >
\* general-info: the category returned is the highest-priority one a rule of
\* which matches the text
C7_FirstMatchWins ==
    cl_calls > 0 => cl_last.query_type = FirstMatching(cl_query)

\* C7: a text that matches rules of two categories or more was classified as
\* the higher one, here skill-lookup before experience-lookup
C7_Witness ==
    /\ cl_calls > 0
    /\ cl_query = "experiencia laboral y skills"
    /\ Cardinality(MatchingCategories(cl_query)) >= 2
    /\ cl_last.query_type = SKILL_QUERY

(***************************************************************************)
(* Properties of the strategy resolver (SpecStrategy).                     *)
(***************************************************************************)

\* a row of the mapping table
Row(uses_retrieval, result_count, filter, template) ==
    [use_vector_search |-> uses_retrieval, search_filters |-> filter,
     response_template |-> template, max_results |-> result_count]

\* the filter "key = entities.key" (None when the entities hold no such key)
EntityFilter(entities, key) ==
    [x \in {key} |-> IF key \in DOMAIN entities THEN entities[key] ELSE None]

\* the mapping table of categories to retrieval configurations
MappingTable(category, entities) ==
    CASE category = "greeting" -> Row(FALSE, 5, EmptyDict, "greeting")
      [] category = "student_search" ->
             Row(TRUE, 1, EntityFilter(entities, "student_name"), "student_profile")
      [] category = "skill_query" ->
             Row(TRUE, 3, EntityFilter(entities, "skill"), "skill_focused")
      [] category = "experience_query" -> Row(TRUE, 5, EmptyDict, "experience_focused")
      [] category = "education_query" -> Row(TRUE, 5, EmptyDict, "education_focused")
      [] category = "contact_query" -> Row(TRUE, 3, EmptyDict, "contact_focused")
      [] category \in { "general_info", "unknown" } -> Row(TRUE, 5, EmptyDict, "default")

\* C9: get_search_strategy returns the row of the mapping table for every
\* category and entities, and max_results > 0 in every strategy returned
C9_MappingTable ==
    \A i \in 1..Len(st_log) :
        /\ st_log[i].value = MappingTable(st_log[i].query_type, st_log[i].info)
        /\ st_log[i].value.max_results > 0

\* C9: strategies were resolved for a contact query and for a student lookup
\* with a name
C9_Witness ==
    /\ Len(st_log) = 2
    /\ st_log[1].query_type = CONTACT_QUERY
    /\ st_log[1].value.max_results = 3
    /\ st_log[2].query_type = STUDENT_SEARCH
    /\ st_log[2].value.search_filters = [student_name |-> "maria"]

\* C10: get_search_strategy is pure: a strategy a call returned is still what
\* it was when returned, the entities passed are unchanged, two calls with the
\* same category and entities returned equal strategies, no two strategies
\* share their filter dict with each other or with entities, and the engine is
\* unchanged
C10_Pure ==
    /\ decision_engine = NewDecisionEngine
    /\ \A i \in 1..Len(st_log) :
          /\ Deref(heap, st_log[i].ret) = st_log[i].value
          /\ heap[st_log[i].info_addr] = st_log[i].info
    /\ \A i, j \in 1..Len(st_log) :
          /\ (st_log[i].query_type = st_log[j].query_type /\ st_log[i].info = st_log[j].info)
                => st_log[i].value = st_log[j].value
          /\ st_log[i].ret.search_filters # st_log[j].info_addr
          /\ i # j => st_log[i].ret.search_filters # st_log[j].ret.search_filters

\* C10: a skill strategy built from entities without a skill was followed by
\* a second call with the same arguments
C10_Witness ==
    /\ Len(st_log) = 2
    /\ st_log[1].query_type = SKILL_QUERY
    /\ st_log[1].info = [student_name |-> "maria"]
    /\ st_log[2].query_type = st_log[1].query_type
    /\ st_log[2].info = st_log[1].info
    /\ st_log[1].ret # st_log[2].ret

(***************************************************************************)
(* Properties of the two metadata filters (SpecFilter).                    *)
(***************************************************************************)

\* C3: the local and the remote backend accept the same passages: a metadata
\* passes _apply_filters if and only if it passes the filter _search_pinecone
\* builds
C3_SameFilterSemantics ==
    flt_done => (flt_local = flt_remote)

(***************************************************************************)
(* Properties of the application (Spec).                                   *)
(***************************************************************************)

\* the query the frame is about was asked
Asked == frame.route.user_question # None

\* C1: when the vector store's search raises during a query, the query does
\* not raise: it returns the fixed apology with confidence "error" and no
\* sources
C1_SearchErrorContained ==
    (Asked /\ frame.gateway.raises) =>
        /\ ~raised
        /\ response = Response(ErrorAnswer, frame.route.query_type, << >>, "error")

\* C2: an exception raised at any step of the synthesis is caught in
\* _generate_response: the query returns the fixed apology with confidence
\* "error" and no sources, the LLM was invoked once at most, and no exception
\* reaches the caller
C2_SynthesisErrorContained ==
    (Asked /\ frame.generated /\ frame.fault) =>
        /\ ~raised
        /\ response = Response(ErrorAnswer, frame.route.query_type, << >>, "error")
        /\ frame.llm_calls <= 1
        /\ pc = "idle"

\* C2: the synthesis of a query failed after the LLM was invoked
C2_Witness ==
    /\ Asked /\ frame.generated /\ frame.fault
    /\ frame.llm_calls = 1
    /\ response.confidence = "error"

\* C5: the Pinecone key is optional: once GROQ_API_KEY is configured the
\* import of the configuration succeeds; only a missing GROQ_API_KEY stops
\* the startup
C5_PineconeKeyOptional ==
    (process # "importing" /\ ~MissingValue(env["GROQ_API_KEY"])) => process = "running"

\* C8: a query that matches a greeting rule is classified greeting with empty
\* entities and answered with the greeting template, confidence high and no
\* sources, without a call of the vector store's search or of the LLM
C8_GreetingWithoutRetrieval ==
    (Asked /\ RuleMatches(frame.route.user_question, GREETING)) =>
        /\ frame.route.query_type = GREETING
        /\ frame.route.extracted_info = EmptyDict
        /\ response = Response(TemplateText(Templates["greeting"]), GREETING, << >>, "high")
        /\ frame.search_calls = << >>
        /\ frame.llm_calls = 0
        /\ ~frame.generated
        /\ pc = "idle"
        /\ ~raised

\* C8: a greeting that also names a student was answered
C8_Witness ==
    /\ frame.route.user_question = "  Hola quien es ana"
    /\ RuleMatches(frame.route.user_question, STUDENT_SEARCH)
    /\ frame.route.query_type = GREETING
    /\ response.confidence = "high"
    /\ Len(chat_history) = 2

\* the search of the query the frame is about has returned or raised
Searched == Asked /\ frame.search_calls # << >> /\ pc # "search"

\* C11: when the search of a retrieval query returns an empty sequence, the
\* query returns the fixed non-empty "no information" answer with confidence
\* low and no sources, without raising and without invoking the LLM
C11_EmptySearchAnswered ==
    (Searched /\ ~frame.gateway.raises /\ frame.gateway.results = << >>) =>
        /\ response.answer =
              "Lo siento, no encontré información relevante para tu consulta en los CVs almacenados."
        /\ response.confidence = "low"
        /\ response.sources = << >>
        /\ response.query_type = frame.route.query_type
        /\ ~raised
        /\ frame.llm_calls = 0 /\ ~frame.generated
        /\ pc = "idle"

\* C11: the search of a general query returned nothing
C11_Witness ==
    /\ Searched /\ ~frame.gateway.raises /\ frame.gateway.results = << >>
    /\ frame.route.query_type = GENERAL_INFO
    /\ response.confidence = "low"
    /\ Len(chat_history) = 2

(***************************************************************************)
(* Properties of the vector store (SpecStore).                             *)
(***************************************************************************)

\* C12: when the connection to Pinecone fails, the construction does not
\* raise and leaves use_pinecone false with an empty FAISS index; and
\* whatever is called on the store afterwards, use_pinecone is what the
\* construction left
C12_BackendFixed ==
    /\ (vs_init.built /\ vs_init.use_pinecone /\ ~vs_init.pinecone_ok) =>
          /\ ~vs_init.raised
          /\ ~vs_init.self.use_pinecone
          /\ vs_init.self.faiss_index = [built |-> TRUE, ntotal |-> 0]
          /\ vs_init.self.documents = << >>
          /\ vs_init.self.document_metadata = << >>
    /\ vs_init.built =>
          /\ vector_store.use_pinecone = vs_init.self.use_pinecone
          /\ vector_store.use_pinecone => (vs_init.use_pinecone /\ vs_init.pinecone_ok)

\* C12: a store that fell back to FAISS was filled, saved and searched
C12_Witness ==
    /\ StoreUp /\ vs_init.use_pinecone /\ ~vs_init.pinecone_ok
    /\ ~vector_store.use_pinecone
    /\ Len(vector_store.documents) > 0
    /\ files.has_metadata
    /\ search_log.done /\ search_log.out.results # << >>

\* the latest search was a search of the local index
LocalSearch == search_log.done /\ ~search_log.use_pinecone

\* C15: a search of a local index that holds no vector returns an empty
\* sequence and does not raise, whatever the k and the filter
C15_EmptyIndexSearch ==
    (LocalSearch /\ search_log.ntotal = 0) =>
        /\ search_log.out.results = << >>
        /\ ~search_log.out.raised

\* C15: an index that was filled and saved, then cleared, was searched with a
\* filter
C15_Witness ==
    /\ LocalSearch /\ search_log.ntotal = 0
    /\ files.has_metadata /\ files.documents # << >>
    /\ vector_store.documents = << >>
    /\ search_log.filters # EmptyDict

\* the passage the index holds for a hit of the latest search
HitPassage(hit) ==
    [content |-> search_log.documents[hit.idx].page_content,
     metadata |-> search_log.document_metadata[hit.idx],
     score |-> hit.score]

\* the passages xs are passages of the ranking, in the ranking's order, none twice
InRankingOrder(xs, ranked) ==
    \E f \in [1..Len(xs) -> 1..Len(ranked)] :
        /\ \A i, j \in 1..Len(xs) : i < j => f[i] < f[j]
        /\ \A i \in 1..Len(xs) : xs[i] = HitPassage(ranked[f[i]])

\* C20: a local search returns at most k passages, each of which passes the
\* filter, in the ranking's order (scores not increasing) and none twice
C20_LocalSearchResults ==
    LocalSearch =>
        LET results == search_log.out.results
        IN  /\ Len(results) <= search_log.k
            /\ \A i \in 1..Len(results) :
                  apply_filters(results[i].metadata, search_log.filters)
            /\ \A i, j \in 1..Len(results) :
                  i < j => results[i].score >= results[j].score
            /\ InRankingOrder(results, search_log.ranked)

\* C20: a search with k = 1 and a name filter over three vectors returned the
\* second of the ranking, the first being another student's
C20_Witness ==
    /\ LocalSearch /\ search_log.ntotal = 3 /\ search_log.k = 1
    /\ search_log.filters = [student_name |-> "maria"]
    /\ search_log.document_metadata[search_log.ranked[1].idx].student_name = "Juan Perez"
    /\ Len(search_log.out.results) = 1
    /\ search_log.out.results[1] = HitPassage(search_log.ranked[2])

(***************************************************************************)
(* Properties of the confidence (SpecConfidence).                          *)
(***************************************************************************)

\* C13: the confidence is high if and only if the context is longer than
\* 1000 characters and the answer does not contain "Desconocido"; otherwise
\* medium if and only if the context is longer than 500 characters; otherwise
\* low
C13_ConfidenceLevels ==
    cf_confidence # None =>
        LET long == Len(cf_context) > 1000
            marked == \E i \in 1..Len(cf_answer) :
                         SubSeq(cf_answer, i, Min(i + 10, Len(cf_answer))) = "Desconocido"
        IN  /\ cf_confidence \in { "high", "medium", "low" }
            /\ cf_confidence = "high" <=> (long /\ ~marked)
            /\ cf_confidence = "medium" <=> (~(long /\ ~marked) /\ Len(cf_context) > 500)

\* C13: a context above the large threshold with an answer that holds the
\* marker was rated medium
C13_Witness ==
    /\ Len(cf_context) = 1001
    /\ cf_answer = "Estudiante: Desconocido."
    /\ cf_confidence = "medium"

(***************************************************************************)
(* Properties of the sources of an answer (Spec).                          *)
(***************************************************************************)

\* how many times x is in the list xs
Occurrences(xs, x) == Cardinality({ i \in 1..Len(xs) : xs[i] = x })

\* a synthesis of the frame's query returned an answer
Synthesized == Asked /\ frame.generated /\ ~frame.fault

\* C14: the sources of a synthesized answer hold no duplicate: every source
\* identifier of the context is in the list exactly once, also when several
\* retrieved passages carry the same filename
C14_SourcesUnique ==
    Synthesized =>
        /\ \A i, j \in 1..Len(response.sources) :
              i # j => response.sources[i] # response.sources[j]
        /\ \A i \in 1..Len(frame.gateway.results) :
              Occurrences(response.sources, frame.gateway.results[i].metadata.filename) = 1

\* C14: two passages of the same file were retrieved and the file is named once
C14_Witness ==
    /\ Synthesized
    /\ Len(frame.gateway.results) = 2
    /\ frame.gateway.results[1].metadata.filename = frame.gateway.results[2].metadata.filename
    /\ Occurrences(response.sources, "cv_maria.pdf") = 1

(***************************************************************************)
(* Properties of the orchestration of a query (Spec).                      *)
(***************************************************************************)

\* C16: a query that is not a greeting calls the search once, with the text
\* as typed, the max_results of its category's strategy as k and the
\* strategy's search_filters as filters; a text no rule matches is searched
\* with k = 5 and no filter, a student lookup with k = 1 and the extracted name
C16_SearchArguments ==
    (Asked /\ frame.route.query_type # GREETING) =>
        LET row == MappingTable(frame.route.query_type, frame.route.extracted_info)
        IN  /\ frame.search_calls =
                  << [query |-> frame.route.user_question, k |-> row.max_results,
                      filters |-> row.search_filters] >>
            /\ frame.route.user_question = "asdkjhasd" =>
                  frame.search_calls = << [query |-> "asdkjhasd", k |-> 5,
                                           filters |-> EmptyDict] >>
            /\ frame.route.query_type = STUDENT_SEARCH =>
                  /\ frame.search_calls[1].k = 1
                  /\ frame.search_calls[1].filters =
                        [student_name |-> frame.route.extracted_info.student_name]

\* C16: the student lookup of the second scenario is being searched
C16_Witness ==
    /\ pc = "search"
    /\ frame.search_calls =
          << [query |-> "Busca información de Maria", k |-> 1,
              filters |-> [student_name |-> "maria"]] >>

\* the query of the frame is at a step that can be taken
StepEnabled ==
    /\ pc = "search" =>
          ENABLED (\E gateway \in GatewayOutcomes(frame.route.search_strategy.max_results) :
                      SearchReturns(gateway))
    /\ pc = "generate" =>
          ENABLED (\E llm \in LLMOutcomes, hash_order \in HashOrders :
                      GenerateResponse(llm, hash_order))

\* one pass: the search is called once at most, the LLM once at most and only
\* after a search that returned a passage
OnePass ==
    /\ Len(frame.search_calls) <= 1
    /\ frame.llm_calls <= 1
    /\ frame.llm_calls = 1 =>
          /\ frame.search_calls # << >>
          /\ ~frame.gateway.raises
          /\ frame.gateway.results # << >>
    /\ frame.generated => (frame.gateway.results # << >> /\ pc = "idle")

Constrains(filters, key) ==
    key \in DOMAIN filters /\ filters[key] \notin { None, "" }

\* the name filter, when it constrains, is inside the passage's student name
NameHolds ==
    Constrains(flt_filters, "student_name") =>
        LET name == IF "student_name" \in DOMAIN flt_metadata
                    THEN flt_metadata.student_name ELSE ""
        IN  Contains(Lower(name), Lower(flt_filters.student_name))

\* the skill filter, when it constrains, is inside the passage's joined skills
SkillHolds ==
    Constrains(flt_filters, "skill") =>
        LET skills == IF "skills" \in DOMAIN flt_metadata
                      THEN flt_metadata.skills ELSE << >>
        IN  Contains(Lower(Join(skills, " ")), Lower(flt_filters.skill))

\* C18: _apply_filters accepts a passage exactly when every filter that
\* constrains the search holds (name inside the student name, skill inside the
\* joined skills, both case-insensitively); a filter that is absent, None or
\* empty constrains nothing, and a filter that fails is never made up for by
\* the other one
C18_FilterConjunction ==
    flt_done =>
        /\ flt_local <=> (NameHolds /\ SkillHolds)
        /\ (~NameHolds \/ ~SkillHolds) => ~flt_local

\* C18: a passage whose name passes the name filter is rejected for its skills
C18_Witness ==
    /\ flt_done
    /\ Constrains(flt_filters, "student_name") /\ Constrains(flt_filters, "skill")
    /\ NameHolds /\ ~SkillHolds
    /\ ~flt_local

(***************************************************************************)
(* The two sources of the retrieval decision (SpecStrategy).                *)
(***************************************************************************)

\* C19: the greeting is the only type that skips retrieval: for every query
\* type, unknown included, should_use_rag agrees with the use_vector_search
\* flag of the strategy get_search_strategy returned for it
C19_RetrievalDecisionsAgree ==
    \A i \in 1..Len(st_log) :
        /\ should_use_rag(st_log[i].query_type) = st_log[i].value.use_vector_search
        /\ should_use_rag(st_log[i].query_type) <=> st_log[i].query_type # GREETING

(***************************************************************************)
(* The context block built for the LLM (Spec).                              *)
(***************************************************************************)

\* the first n characters of a text
Prefix(text, n) == IF Len(text) <= n THEN text ELSE SubSeq(text, 1, n)

\* the tags of the i-th entry that stand before the passage's text
EntryHead(i, p) ==
    "\nDOCUMENTO " \o ToString(i) \o ":\nArchivo: " \o p.metadata.filename
    \o "\nEstudiante: " \o p.metadata.student_name \o "\nContenido: "

\* the score tag that closes the i-th entry
EntryTail(p) == "\nPuntuación: " \o Fmt3(p.score) \o "\n---"

RECURSIVE Entries(_, _)
\* the entries of the first n passages, in retrieval order, one per line group
Entries(rs, n) ==
    IF n = 0 THEN ""
    ELSE Entries(rs, n - 1) \o (IF n = 1 THEN "" ELSE "\n")
         \o EntryHead(n, rs[n]) \o Prefix(rs[n].content, 500) \o EntryTail(rs[n])

\* a search of the query returned passages and the context was built
ContextBuilt ==
    Asked /\ pc # "search" /\ ~frame.gateway.raises /\ frame.gateway.results # << >>

\* C21: the context block holds exactly one entry per retrieved passage, at
\* most max_results of them, in retrieval order; each entry carries at most the
\* first 500 characters of the passage's text and is tagged with the passage's
\* filename, student name and score
C21_ContextEntries ==
    ContextBuilt =>
        LET rs == frame.gateway.results
        IN  /\ Len(rs) <= frame.route.search_strategy.max_results
            /\ frame.context = Entries(rs, Len(rs))
            /\ Len(frame.context) <=
                  Len(Entries([i \in 1..Len(rs) |-> [rs[i] EXCEPT !.content = ""]], Len(rs)))
                  + 500 * Len(rs)

\* C21: a context of two entries whose first passage was cut at 500 characters
C21_Witness ==
    /\ ContextBuilt
    /\ Len(frame.gateway.results) = 2
    /\ Len(frame.gateway.results[1].content) > 500
    /\ Contains(frame.context, "\nDOCUMENTO 2:\nArchivo: cv_maria.pdf\nEstudiante: Maria Lopez")
    /\ Contains(frame.context, "Puntuación: 1.000")
    /\ ~Contains(frame.context, frame.gateway.results[1].content)

(***************************************************************************)
(* Empty and blank input (SpecClassify).                                    *)
(***************************************************************************)

\* a text of no character, or of whitespace only
Blank(text) == \A i \in 1..Len(text) : SubSeq(text, i, i) \in { " ", "\t", "\n" }

\* no rule of the engine, and no capturing rule of the skill, matches ""
NoRuleMatchesEmpty ==
    /\ \A qt \in DOMAIN decision_engine.patterns :
          \A i \in 1..Len(decision_engine.patterns[qt]) :
              ~Matched(re_search(decision_engine.patterns[qt][i], "", TRUE))
    /\ \A i \in 1..Len(SkillExtractPatterns) :
          ~Matched(re_search(SkillExtractPatterns[i], "", TRUE))

\* C22: the empty text and a text of whitespace only are classified as
\* general-info with no entities, and no rule of any query type matches the
\* empty text
C22_BlankIsGeneralInfo ==
    /\ NoRuleMatchesEmpty
    /\ (cl_calls > 0 /\ Blank(cl_query)) =>
          /\ cl_last = Analysis(GENERAL_INFO, EmptyDict)
          /\ cl_first = cl_last

\* C22: a text of blanks, a tab and a newline was classified
C22_Witness ==
    /\ cl_calls > 0
    /\ Blank(cl_query) /\ Len(cl_query) = 4
    /\ cl_last.query_type = GENERAL_INFO

(***************************************************************************)
(* The three parallel structures of the local index (SpecIndex).            *)
(***************************************************************************)

\* the index, the documents and their metadata have one entry per vector
Aligned(self) ==
    /\ self.faiss_index.ntotal = Len(self.documents)
    /\ Len(self.documents) = Len(self.document_metadata)
    /\ \A i \in 1..Len(self.documents) : self.document_metadata[i] = self.documents[i].metadata

\* what a search of the store for k passages would do now
SearchNow(k) ==
    search(vector_store, InsertionRanking(vector_store.faiss_index.ntotal),
           SearchResult(<< >>, FALSE), k, EmptyDict)

\* C23: on the local backend the index, the documents and the metadata stay
\* aligned after every operation (ntotal = len(documents) = len(document_metadata)),
\* so a search never meets a position without a document and returns every
\* passage with its own metadata
C23_StructuresAligned ==
    (StoreUp /\ ~vector_store.use_pinecone) =>
        /\ Aligned(vector_store)
        /\ \A k \in 1..MaxK :
              /\ ~SearchNow(k).raised
              /\ \A i \in 1..Len(SearchNow(k).results) :
                    \E j \in 1..Len(vector_store.documents) :
                        /\ SearchNow(k).results[i].content =
                              vector_store.documents[j].page_content
                        /\ SearchNow(k).results[i].metadata =
                              vector_store.documents[j].metadata

(***************************************************************************)
(* Ingestion of the PDF directory (SpecIndex).                              *)
(***************************************************************************)

\* C29: process_documents is idempotent on the local backend: called on a
\* directory whose chunks the store already holds, it leaves the number of
\* vectors and of documents of the store, and of the saved index, as they
\* were after the first call; a call that finds no document returns
\* success = false and leaves the store and the saved index unchanged
C29_IngestionIdempotent ==
    ingest_log.done =>
        /\ ingest_log.found = 0 =>
              (~ingest_log.success /\ ~ingest_log.raised /\ ingest_log.unchanged)
        /\ (ingest_log.found > 0 /\ ingest_log.held /\ ingest_log.success) =>
              /\ ingest_log.vectors[2] = ingest_log.vectors[1]
              /\ ingest_log.documents[2] = ingest_log.documents[1]
              /\ ingest_log.saved[2] = ingest_log.documents[1]

(***************************************************************************)
(* Completeness of the filtered local search (SpecStore).                   *)
(***************************************************************************)

\* the indexed documents whose metadata passes the filter of the latest search
Matching ==
    { i \in 1..Len(search_log.document_metadata) :
        apply_filters(search_log.document_metadata[i], search_log.filters) }

\* C24: a filtered local search over an index with M documents that pass the
\* filter returns min(k, M) passages: no matching document is missed because
\* documents that do not match are ranked above it
C24_FilteredSearchComplete ==
    (LocalSearch /\ ~search_log.out.raised) =>
        Len(search_log.out.results) = Min(search_log.k, Cardinality(Matching))

(***************************************************************************)
(* The sources of an answer and the passages retrieved for it (Spec).       *)
(***************************************************************************)

\* the filenames of the passages retrieved for the query of the frame
RetrievedFilenames ==
    { frame.gateway.results[i].metadata.filename : i \in 1..Len(frame.gateway.results) }

\* C25: every identifier in the sources of a synthesized answer is the
\* filename of a passage retrieved for the query, and the filename of every
\* retrieved passage is in the sources: the text of a passage never adds a
\* source
C25_SourcesAreRetrievedFiles ==
    Synthesized => Elements(response.sources) = RetrievedFilenames

(***************************************************************************)
(* documents_processed and the index of the session's agent (SpecPage).     *)
(***************************************************************************)

\* C26: whenever documents_processed is true there is an agent and, on the
\* local backend, its index holds a vector at least: the chat never searches
\* an empty index
C26_ProcessedMeansIndexed ==
    /\ documents_processed =>
          /\ StoreUp
          /\ ~vector_store.use_pinecone => vector_store.faiss_index.ntotal >= 1
    /\ (LocalSearch /\ documents_processed) => search_log.ntotal >= 1

(***************************************************************************)
(* The chat of the page and the history of the agent (Spec).                *)
(***************************************************************************)

\* the chat is a sequence of pairs: a user message, then the assistant's reply
PairedChat ==
    /\ Len(chat_history) % 2 = 0
    /\ \A i \in 1..Len(chat_history) : chat_history[i].is_user <=> (i % 2 = 1)

\* C27: between two queries chat_history is a sequence of (user message,
\* assistant message) pairs in submission order: every user message is
\* followed by the reply to it, also when the agent's query failed
C27_ChatPairs ==
    pc = "idle" => PairedChat

\* a step in which a query call returned its answer to the page
QueryReturned ==
    /\ Len(chat_history') > Len(chat_history)
    /\ ~chat_history'[Len(chat_history')].is_user

\* C28: every query call that returns adds exactly one entry to
\* conversation_history, whatever its type and outcome (greeting, empty
\* retrieval, synthesized answer, synthesis error), so the history holds one
\* entry per query since the last clear, in call order
C28_HistoryPerQuery ==
    [][QueryReturned =>
          /\ Len(conversation_history') = Len(conversation_history) + 1
          /\ conversation_history'[Len(conversation_history')].question =
                frame'.route.user_question
          /\ SubSeq(conversation_history', 1, Len(conversation_history)) =
                conversation_history]_vars

(***************************************************************************)
(* The entities of a classification (SpecClassify).                         *)
(***************************************************************************)

\* a text of one character at least, none of them whitespace
Token(v) ==
    /\ v # None /\ Len(v) > 0
    /\ \A i \in 1..Len(v) : SubSeq(v, i, i) \notin { " ", "\t", "\n" }

\* C30: the entities analyze_query returns fit the query type: student_name is
\* there exactly when the type is student-lookup and is then a non-empty
\* token; skill is there only with skill-lookup and is then non-empty; every
\* other type has no entity (a skill-lookup without a captured skill included)
C30_EntitiesFitCategory ==
    cl_calls > 0 =>
        LET query_type == cl_last.query_type
            info == cl_last.extracted_info
        IN  /\ DOMAIN info \subseteq { "student_name", "skill" }
            /\ "student_name" \in DOMAIN info <=> query_type = STUDENT_SEARCH
            /\ "student_name" \in DOMAIN info => Token(info.student_name)
            /\ "skill" \in DOMAIN info => (query_type = SKILL_QUERY /\ Token(info.skill))
            /\ query_type \notin { STUDENT_SEARCH, SKILL_QUERY } => info = EmptyDict

\* C30: a skill-lookup none of whose capturing rules matched was returned with
\* no entity
C30_Witness ==
    /\ cl_calls > 0
    /\ cl_query = "que habilidades tiene"
    /\ cl_last = Analysis(SKILL_QUERY, EmptyDict)
    /\ extract_skill(Strip(Lower(cl_query))) = None

====
